---------------------------- MODULE Spec2Model ----------------------------
(* The emissions calculation engine of glec-api-dev2: the template method *)
(* EmissionCalculator.calculate and the four mode strategies (road, rail,  *)
(* sea, air), with the emission-factor lookup as the one suspension point. *)
(*                                                                         *)
(* JavaScript numbers are modelled as exact rationals [n, d] in lowest     *)
(* terms with d > 0; the value `undefined` of an optional number is the    *)
(* record with d = 0, of an optional string the string "undefined".        *)
EXTENDS Integers, Sequences, FiniteSets, TLC

\* ------------------------------------------------------------------ numbers

Abs(x) == IF x < 0 THEN 0 - x ELSE x

RECURSIVE GCD(_, _)
GCD(a, b) == IF b = 0 THEN a ELSE GCD(b, a % b)

\* The rational n/d in lowest terms with a positive denominator. Arithmetic
\* on an absent operand (d = 0) gives no number, as undefined gives NaN.
Rat(n, d) ==
  IF d = 0 THEN [n |-> 0, d |-> 0]
  ELSE LET s == IF d < 0 THEN 0 - 1 ELSE 1
           g == GCD(Abs(n), Abs(d))
       IN  [n |-> (s * n) \div g, d |-> (s * d) \div g]

Num(k) == [n |-> k, d |-> 1]
Zero == Num(0)
One == Num(1)
\* An optional number that is absent (JavaScript undefined).
NoNumber == [n |-> 0, d |-> 0]

Defined(x) == x.d # 0
\* JavaScript truthiness of an optional number: undefined and 0 are falsy.
Truthy(x) == Defined(x) /\ x.n # 0
\* JavaScript truthiness of an optional string: undefined and "" are falsy.
TruthyStr(s) == s # "undefined" /\ s # ""

\* Product, quotient and sum; common factors are cancelled before the
\* multiplications, which keeps the intermediate integers small.
RMul(a, b) ==
  IF a.d = 0 \/ b.d = 0 THEN NoNumber
  ELSE IF a.n = 0 \/ b.n = 0 THEN Zero
  ELSE LET g1 == GCD(Abs(a.n), b.d)
           g2 == GCD(Abs(b.n), a.d)
       IN  Rat((a.n \div g1) * (b.n \div g2), (a.d \div g2) * (b.d \div g1))
RDiv(a, b) ==
  IF b.d = 0 \/ b.n = 0 THEN NoNumber
  ELSE RMul(a, IF b.n < 0 THEN [n |-> 0 - b.d, d |-> 0 - b.n]
               ELSE [n |-> b.d, d |-> b.n])
RAdd(a, b) ==
  IF a.d = 0 \/ b.d = 0 THEN NoNumber
  ELSE LET g == GCD(a.d, b.d)
       IN  Rat(a.n * (b.d \div g) + b.n * (a.d \div g), (a.d \div g) * b.d)
RLt(a, b) == a.n * b.d < b.n * a.d
RLe(a, b) == a.n * b.d <= b.n * a.d
REq(a, b) == a.n * b.d = b.n * a.d
\* Math.max
RMax(a, b) == IF RLt(a, b) THEN b ELSE a
\* a || b on optional numbers
OrElse(a, b) == IF Truthy(a) THEN a ELSE b

\* ------------------------------------------------------------------ strings

\* String.prototype.toLowerCase on the strings the model uses.
toLowerCase(s) ==
  CASE s = "Truck" -> "truck"
    [] OTHER -> s

\* Array.prototype.join(', ') of message strings: the joined text, kept as
\* the list of its pieces with the separator between any two of them.
RECURSIVE Join(_)
Join(msgs) ==
  IF Len(msgs) = 0 THEN <<>>
  ELSE IF Len(msgs) = 1 THEN <<msgs[1]>>
  ELSE <<msgs[1], ", ">> \o Join(Tail(msgs))

\* ---------------------------------------------------------------- constants

\* GLEC_CONSTANTS.GWP
GWP_CO2 == 1
GWP_CH4 == 28
GWP_N2O == 265

\* GLEC_CONSTANTS.DEFAULT_LOAD_FACTORS
DEFAULT_LOAD_FACTORS(mode) ==
  CASE mode = "road" -> Rat(7, 10)
    [] mode = "rail" -> Rat(8, 10)
    [] mode = "sea" -> Rat(85, 100)
    [] mode = "air" -> Rat(8, 10)

TransportModes == {"road", "rail", "sea", "air"}


\* ---------------------------------------------------------------- validation

\* CalculationError values (code, message, field), as the validators build them.
CalcError(code, message, field) ==
  [code |-> code, message |-> message, field |-> field]

\* errors.push(e) when the rule is violated
PushIf(violated, e) == IF violated THEN <<e>> ELSE <<>>

\* !data.distance || data.distance <= 0
BadDistance(data) == ~Truthy(data.distance) \/ RLe(data.distance, Zero)

\* !data.weight || data.weight <= 0
BadWeight(data) == ~Truthy(data.weight) \/ RLe(data.weight, Zero)

\* A road validation that requires a positive weight, as the other modes do.
Road_validateInput_WeightRequired(data) ==
  PushIf(BadDistance(data),
         CalcError("INVALID_DISTANCE",
                   "Distance must be provided and greater than 0", "distance"))
  \o PushIf(~TruthyStr(data.vehicle.type),
            CalcError("INVALID_VEHICLE",
                      "Vehicle type must be specified", "vehicle.type"))
  \o PushIf(~TruthyStr(data.vehicle.fuelType),
            CalcError("INVALID_FUEL_TYPE",
                      "Fuel type must be specified", "vehicle.fuelType"))
  \o PushIf(BadWeight(data),
            CalcError("INVALID_WEIGHT", "Weight cannot be negative", "weight"))
  \o PushIf(Defined(data.loadFactor)
              /\ (RLt(data.loadFactor, Zero) \/ RLt(One, data.loadFactor)),
            CalcError("INVALID_LOAD_FACTOR",
                      "Load factor must be between 0 and 1", "loadFactor"))

\* RoadTransportCalculator.validateInput
Road_validateInput(data) ==
  PushIf(BadDistance(data),
         CalcError("INVALID_DISTANCE",
                   "Distance must be provided and greater than 0", "distance"))
  \o PushIf(~TruthyStr(data.vehicle.type),
            CalcError("INVALID_VEHICLE",
                      "Vehicle type must be specified", "vehicle.type"))
  \o PushIf(~TruthyStr(data.vehicle.fuelType),
            CalcError("INVALID_FUEL_TYPE",
                      "Fuel type must be specified", "vehicle.fuelType"))
  \o PushIf(Defined(data.weight) /\ RLt(data.weight, Zero),
            CalcError("INVALID_WEIGHT", "Weight cannot be negative", "weight"))
  \o PushIf(Defined(data.loadFactor)
              /\ (RLt(data.loadFactor, Zero) \/ RLt(One, data.loadFactor)),
            CalcError("INVALID_LOAD_FACTOR",
                      "Load factor must be between 0 and 1", "loadFactor"))

\* RailTransportCalculator.validateInput
Rail_validateInput(data) ==
  PushIf(BadDistance(data),
         CalcError("INVALID_DISTANCE",
                   "Distance must be provided and greater than 0", "distance"))
  \o PushIf(BadWeight(data),
            CalcError("INVALID_WEIGHT",
                      "Weight (cargo tonnage) must be provided for rail transport",
                      "weight"))

\* SeaTransportCalculator.validateInput
Sea_validateInput(data) ==
  PushIf(BadDistance(data),
         CalcError("INVALID_DISTANCE",
                   "Distance must be provided and greater than 0", "distance"))
  \o PushIf(BadWeight(data),
            CalcError("INVALID_WEIGHT",
                      "Weight (cargo tonnage) must be provided for sea transport",
                      "weight"))

\* An air validation that looks at the distance only.
Air_validateInput_DistanceOnly(data) ==
  PushIf(BadDistance(data),
         CalcError("INVALID_DISTANCE",
                   "Distance must be provided and greater than 0", "distance"))

\* AirTransportCalculator.validateInput
Air_validateInput(data) ==
  PushIf(BadDistance(data),
         CalcError("INVALID_DISTANCE",
                   "Distance must be provided and greater than 0", "distance"))
  \o PushIf(BadWeight(data),
            CalcError("INVALID_WEIGHT",
                      "Weight (cargo tonnage) must be provided for air transport",
                      "weight"))

\* this.validateInput, dispatched on the calculator's transport mode
validateInput(mode, data) ==
  CASE mode = "road" -> Road_validateInput(data)
    [] mode = "rail" -> Rail_validateInput(data)
    [] mode = "sea" -> Sea_validateInput(data)
    [] mode = "air" -> Air_validateInput(data)


\* ----------------------------------------------------------- factor provider

\* A row of the emission_factors table, as the calculators read it.
FactorRow(id, mode, vtype, fuel, co2, ch4, n2o, unit, region, updated) ==
  [id |-> id, transport_mode |-> mode, vehicle_type |-> vtype,
   fuel_type |-> fuel, emission_factor_co2 |-> co2,
   emission_factor_ch4 |-> ch4, emission_factor_n2o |-> n2o, unit |-> unit,
   source |-> "db", region |-> region, updated_at |-> updated]

\* The rows the external store may hold (any sub-table of these).
EmissionFactorsTable ==
  { FactorRow("f1", "road", "truck", "diesel", Rat(1, 10), Rat(1, 1000),
              Rat(1, 2000), "km", "EU", 2),
    FactorRow("f2", "road", "truck", "diesel", Rat(3, 25), NoNumber,
              NoNumber, "tkm", "undefined", 1),
    FactorRow("f3", "road", "van", "diesel", Rat(1, 5), Rat(1, 500),
              NoNumber, "tkm", "undefined", 1),
    FactorRow("f4", "road", "truck", "electric", Rat(1, 20), NoNumber,
              Rat(1, 4000), "kwh", "KR", 1),
    FactorRow("f5", "rail", "freight_train", "electric", Rat(3, 100),
              NoNumber, NoNumber, "tkm", "EU", 1),
    FactorRow("f6", "rail", "passenger_train", "electric", Rat(1, 25),
              NoNumber, NoNumber, "tkm", "undefined", 2),
    FactorRow("f7", "sea", "container_ship", "hfo", Rat(1, 100), NoNumber,
              NoNumber, "tkm", "undefined", 1),
    FactorRow("f8", "sea", "bulk_carrier", "mgo", Rat(1, 50), NoNumber,
              NoNumber, "tkm", "undefined", 2),
    FactorRow("f9", "air", "cargo_plane", "jet_fuel", Rat(1, 2), NoNumber,
              NoNumber, "tkm", "undefined", 1) }

\* The .eq(...) filters each calculator puts on its query ("*": no filter).
Road_query(data) ==
  [transport_mode |-> "road",
   vehicle_type |-> toLowerCase(data.vehicle.type),
   fuel_type |-> toLowerCase(data.vehicle.fuelType)]

Rail_query(data) ==
  [transport_mode |-> "rail", vehicle_type |-> "*",
   fuel_type |-> IF TruthyStr(data.vehicle.fuelType)
                 THEN data.vehicle.fuelType ELSE "electric"]

Sea_query(data) ==
  [transport_mode |-> "sea", vehicle_type |-> "*", fuel_type |-> "*"]

Air_query(data) ==
  [transport_mode |-> "air", vehicle_type |-> "*", fuel_type |-> "*"]

FactorQuery(mode, data) ==
  CASE mode = "road" -> Road_query(data)
    [] mode = "rail" -> Rail_query(data)
    [] mode = "sea" -> Sea_query(data)
    [] mode = "air" -> Air_query(data)

\* The rows of a table that a query selects.
Matching(table, q) ==
  { r \in table :
      /\ r.transport_mode = q.transport_mode
      /\ q.vehicle_type \in {"*", r.vehicle_type}
      /\ q.fuel_type \in {"*", r.fuel_type} }

\* Every order in which the store may return a set of rows (no ORDER BY).
Orderings(S) ==
  { f \in [1..Cardinality(S) -> S] :
      \A i, j \in 1..Cardinality(S) : i # j => f[i] # f[j] }

\* What the awaited query can come back with: { data, error } with an error
\* set, a rejected promise, or the selected rows of whatever the store holds.
LookupResponses(q) ==
  { [kind |-> "error", rows |-> <<>>], [kind |-> "throw", rows |-> <<>>] }
  \cup { [kind |-> "data", rows |-> rows] :
           rows \in UNION { Orderings(T) :
                              T \in SUBSET Matching(EmissionFactorsTable, q) } }


\* ------------------------------------------------------------ factor resolution

\* An EmissionFactor value (version and updatedAt left out: nothing reads them).
EmissionFactor(id, mode, vtype, fuel, co2, ch4, n2o, unit, source, region) ==
  [id |-> id, transportMode |-> mode, vehicleType |-> vtype,
   fuelType |-> fuel, co2Factor |-> co2, ch4Factor |-> ch4,
   n2oFactor |-> n2o, unit |-> unit, scope |-> "wtw", source |-> source,
   region |-> region]

DefaultSource == "GLEC Framework v3.1 - Default Values"

\* defaultFactors of RoadTransportCalculator.getDefaultFactor (all per km)
Road_defaultFactors ==
  [truck |-> Rat(79, 1000), van |-> Rat(195, 1000), car |-> Rat(171, 1000),
   motorcycle |-> Rat(84, 1000), heavy_truck |-> Rat(125, 1000),
   light_truck |-> Rat(65, 1000)]

\* A default that falls back to the van factor for an unlisted vehicle type.
Road_getDefaultFactor_VanFallback(vehicle) ==
  LET key == toLowerCase(vehicle.type)
      co2 == IF key \in DOMAIN Road_defaultFactors
             THEN Road_defaultFactors[key] ELSE Road_defaultFactors["van"]
  IN  EmissionFactor("default_road", "road", vehicle.type, vehicle.fuelType,
                     co2, NoNumber, NoNumber, "km", DefaultSource, "undefined")

\* RoadTransportCalculator.getDefaultFactor
Road_getDefaultFactor(vehicle) ==
  LET key == toLowerCase(vehicle.type)
      co2 == IF key \in DOMAIN Road_defaultFactors
             THEN Road_defaultFactors[key] ELSE Road_defaultFactors["truck"]
  IN  EmissionFactor("default_road", "road", vehicle.type, vehicle.fuelType,
                     co2, NoNumber, NoNumber, "km", DefaultSource, "undefined")

\* factors.sort((a, b) => b.updated_at - a.updated_at)[0]: the sort is stable,
\* so among the most recent rows the first returned one wins.
LatestFactor(rows) ==
  LET i == CHOOSE k \in 1..Len(rows) :
             \A j \in 1..Len(rows) :
               \/ rows[j].updated_at < rows[k].updated_at
               \/ (rows[j].updated_at = rows[k].updated_at /\ k <= j)
  IN  rows[i]

\* RoadTransportCalculator.getEmissionFactor, given what the query came back with
Road_getEmissionFactor(data, resp) ==
  IF resp.kind = "error" \/ resp.kind = "throw" THEN
    \* throw new Error('Database error') / rejected await, both caught
    Road_getDefaultFactor(data.vehicle)
  ELSE IF Len(resp.rows) = 0 THEN Road_getDefaultFactor(data.vehicle)
  ELSE LET f == LatestFactor(resp.rows)
       IN  EmissionFactor(f.id, "road", f.vehicle_type, f.fuel_type,
                          f.emission_factor_co2,
                          OrElse(f.emission_factor_ch4, Zero),
                          OrElse(f.emission_factor_n2o, Zero),
                          f.unit, f.source, f.region)

\* The factor rail, sea and air build from factors[0].
FirstRowFactor(mode, resp) ==
  LET f == resp.rows[1]
  IN  EmissionFactor(f.id, mode, f.vehicle_type, f.fuel_type,
                     f.emission_factor_co2, NoNumber, NoNumber, f.unit,
                     f.source, "undefined")

\* !error && factors && factors.length > 0
HasRows(resp) == resp.kind = "data" /\ Len(resp.rows) > 0

Rail_defaultFactor ==
  EmissionFactor("default_rail", "rail", "freight_train", "electric",
                 Rat(28, 1000), NoNumber, NoNumber, "tkm", DefaultSource,
                 "undefined")

Sea_defaultFactor ==
  EmissionFactor("default_sea", "sea", "container_ship", "hfo",
                 Rat(11, 1000), NoNumber, NoNumber, "tkm", DefaultSource,
                 "undefined")

Air_defaultFactor ==
  EmissionFactor("default_air", "air", "cargo_plane", "jet_fuel",
                 Rat(602, 1000), NoNumber, NoNumber, "tkm", DefaultSource,
                 "undefined")

\* RailTransportCalculator.getEmissionFactor
Rail_getEmissionFactor(data, resp) ==
  IF HasRows(resp) THEN FirstRowFactor("rail", resp) ELSE Rail_defaultFactor

\* SeaTransportCalculator.getEmissionFactor
Sea_getEmissionFactor(data, resp) ==
  IF HasRows(resp) THEN FirstRowFactor("sea", resp) ELSE Sea_defaultFactor

\* AirTransportCalculator.getEmissionFactor
Air_getEmissionFactor(data, resp) ==
  IF HasRows(resp) THEN FirstRowFactor("air", resp) ELSE Air_defaultFactor

\* this.getEmissionFactor, resumed with the provider's response
getEmissionFactor(mode, data, resp) ==
  CASE mode = "road" -> Road_getEmissionFactor(data, resp)
    [] mode = "rail" -> Rail_getEmissionFactor(data, resp)
    [] mode = "sea" -> Sea_getEmissionFactor(data, resp)
    [] mode = "air" -> Air_getEmissionFactor(data, resp)

\* ---------------------------------------------------------------- normalize

\* loadFactors of RoadTransportCalculator.getDefaultLoadFactor
Road_loadFactors ==
  [truck |-> Rat(7, 10), van |-> Rat(6, 10), car |-> One, motorcycle |-> One,
   heavy_truck |-> Rat(75, 100), light_truck |-> Rat(65, 100)]

\* A default load factor that ignores the vehicle type.
Road_getDefaultLoadFactor_Generic(vehicleType) == Rat(7, 10)

\* RoadTransportCalculator.getDefaultLoadFactor
Road_getDefaultLoadFactor(vehicleType) ==
  LET key == toLowerCase(vehicleType)
  IN  IF key \in DOMAIN Road_loadFactors
      THEN OrElse(Road_loadFactors[key], Rat(7, 10)) ELSE Rat(7, 10)

\* typeMap of RoadTransportCalculator.normalizeVehicleType
Road_typeMap ==
  [truck |-> "truck", lorry |-> "truck", van |-> "van", car |-> "car",
   automobile |-> "car", motorcycle |-> "motorcycle",
   motorbike |-> "motorcycle", heavy_truck |-> "heavy_truck",
   heavy_goods_vehicle |-> "heavy_truck", hgv |-> "heavy_truck",
   light_truck |-> "light_truck", light_goods_vehicle |-> "light_truck",
   lgv |-> "light_truck"]

\* RoadTransportCalculator.normalizeVehicleType
Road_normalizeVehicleType(vehicleType) ==
  LET key == toLowerCase(vehicleType)
  IN  IF key \in DOMAIN Road_typeMap THEN Road_typeMap[key] ELSE vehicleType

\* A normalisation that leaves an omitted loadFactor omitted.
Road_normalizeActivityData_KeepLoad(data) ==
  [data EXCEPT !.vehicle.type = Road_normalizeVehicleType(data.vehicle.type)]

\* RoadTransportCalculator.normalizeActivityData
Road_normalizeActivityData(data) ==
  LET lf == IF ~Truthy(data.loadFactor)
            THEN Road_getDefaultLoadFactor(data.vehicle.type)
            ELSE data.loadFactor
  IN  [data EXCEPT !.loadFactor = lf,
                   !.vehicle.type = Road_normalizeVehicleType(data.vehicle.type)]

\* RailTransportCalculator.normalizeActivityData
Rail_normalizeActivityData(data) ==
  [data EXCEPT !.loadFactor = OrElse(data.loadFactor, Rat(8, 10))]

\* SeaTransportCalculator.normalizeActivityData
Sea_normalizeActivityData(data) ==
  [data EXCEPT !.loadFactor = OrElse(data.loadFactor, Rat(85, 100))]

\* AirTransportCalculator.normalizeActivityData
Air_normalizeActivityData(data) ==
  [data EXCEPT !.loadFactor = OrElse(data.loadFactor, Rat(8, 10))]

\* this.normalizeActivityData
normalizeActivityData(mode, data) ==
  CASE mode = "road" -> Road_normalizeActivityData(data)
    [] mode = "rail" -> Rail_normalizeActivityData(data)
    [] mode = "sea" -> Sea_normalizeActivityData(data)
    [] mode = "air" -> Air_normalizeActivityData(data)


\* ------------------------------------------------------------------ compute

\* A conversion that leaves the nitrous oxide out.
convertToCO2e_NoN2O(co2, ch4, n2o) ==
  LET t0 == RMul(co2, Num(GWP_CO2))
  IN  IF Truthy(ch4) THEN RAdd(t0, RMul(ch4, Num(GWP_CH4))) ELSE t0

\* EmissionCalculator.convertToCO2e
convertToCO2e(co2, ch4, n2o) ==
  LET t0 == RMul(co2, Num(GWP_CO2))
      t1 == IF Truthy(ch4) THEN RAdd(t0, RMul(ch4, Num(GWP_CH4))) ELSE t0
      t2 == IF Truthy(n2o) THEN RAdd(t1, RMul(n2o, Num(GWP_N2O))) ELSE t1
  IN  t2

\* wtwRatios of RoadTransportCalculator.calculateWTWBreakdown
Road_wtwRatios ==
  [diesel |-> [direct |-> Rat(74, 100), indirect |-> Rat(26, 100)],
   petrol |-> [direct |-> Rat(76, 100), indirect |-> Rat(24, 100)],
   electric |-> [direct |-> Zero, indirect |-> One],
   hybrid |-> [direct |-> Rat(5, 10), indirect |-> Rat(5, 10)],
   biodiesel |-> [direct |-> Rat(8, 10), indirect |-> Rat(2, 10)],
   hfo |-> [direct |-> Rat(72, 100), indirect |-> Rat(28, 100)],
   mgo |-> [direct |-> Rat(73, 100), indirect |-> Rat(27, 100)],
   lng |-> [direct |-> Rat(8, 10), indirect |-> Rat(2, 10)],
   jet_fuel |-> [direct |-> Rat(75, 100), indirect |-> Rat(25, 100)],
   hydrogen |-> [direct |-> Zero, indirect |-> One]]

\* RoadTransportCalculator.calculateWTWBreakdown
Road_calculateWTWBreakdown(totalEmissions, fuelType) ==
  LET ratios == IF fuelType \in DOMAIN Road_wtwRatios
                THEN Road_wtwRatios[fuelType] ELSE Road_wtwRatios["diesel"]
  IN  [directEmissions |-> RMul(totalEmissions, ratios.direct),
       indirectEmissions |-> RMul(totalEmissions, ratios.indirect)]

\* The base emissions of RoadTransportCalculator.calculateEmissions
Road_baseEmissions(data, factor) ==
  IF factor.unit = "km" THEN RMul(data.distance, factor.co2Factor)
  ELSE IF factor.unit = "tkm" /\ Truthy(data.weight)
  THEN RMul(RMul(data.distance, data.weight), factor.co2Factor)
  ELSE RMul(data.distance, factor.co2Factor)

\* A return leg that doubles the emissions instead of adding half.
Road_emptyReturnTotal_Doubled(data, loadAdjustedEmissions) ==
  IF data.emptyReturn = "true"
  THEN RMul(loadAdjustedEmissions, Num(2)) ELSE loadAdjustedEmissions

\* data.emptyReturn ? loadAdjustedEmissions * 1.5 : loadAdjustedEmissions
Road_emptyReturnTotal(data, loadAdjustedEmissions) ==
  IF data.emptyReturn = "true"
  THEN RMul(loadAdjustedEmissions, Rat(15, 10)) ELSE loadAdjustedEmissions

\* RoadTransportCalculator.calculateEmissions
Road_calculateEmissions(data, factor) ==
  LET distance == data.distance
      loadFactor == OrElse(data.loadFactor, Rat(7, 10))
      baseEmissions == Road_baseEmissions(data, factor)
      loadAdjustedEmissions ==
        RDiv(baseEmissions, RMax(loadFactor, Rat(1, 10)))
      totalEmissions == Road_emptyReturnTotal(data, loadAdjustedEmissions)
      wtw == Road_calculateWTWBreakdown(totalEmissions, data.vehicle.fuelType)
      ch4Emissions == IF Truthy(factor.ch4Factor)
                      THEN RMul(RMul(distance, factor.ch4Factor), loadFactor)
                      ELSE NoNumber
      n2oEmissions == IF Truthy(factor.n2oFactor)
                      THEN RMul(RMul(distance, factor.n2oFactor), loadFactor)
                      ELSE NoNumber
  IN  [co2 |-> totalEmissions, ch4 |-> ch4Emissions, n2o |-> n2oEmissions,
       total |-> convertToCO2e(totalEmissions, ch4Emissions, n2oEmissions),
       directEmissions |-> wtw.directEmissions,
       indirectEmissions |-> wtw.indirectEmissions]

\* The tonne-km computation rail, sea and air share, each with its own
\* multiplier on the base (1 except for air), fallback load factor and split.
TonneKmEmissions(data, factor, multiplier, fallbackLoad, direct, indirect) ==
  LET tonneKm == RMul(data.distance, data.weight)
      baseEmissions == RMul(RMul(tonneKm, factor.co2Factor), multiplier)
      loadFactor == OrElse(data.loadFactor, fallbackLoad)
      adjustedEmissions == RDiv(baseEmissions, loadFactor)
  IN  [co2 |-> adjustedEmissions, ch4 |-> NoNumber, n2o |-> NoNumber,
       total |-> adjustedEmissions,
       directEmissions |-> RMul(adjustedEmissions, direct),
       indirectEmissions |-> RMul(adjustedEmissions, indirect)]

\* A rail computation that multiplies by the load factor.
Rail_calculateEmissions_Times(data, factor) ==
  LET r == TonneKmEmissions(data, factor, One, Rat(8, 10), Rat(1, 10), Rat(9, 10))
      lf == OrElse(data.loadFactor, Rat(8, 10))
      co2 == RMul(RMul(r.co2, lf), lf)
  IN  [r EXCEPT !.co2 = co2, !.total = co2,
                !.directEmissions = RMul(co2, Rat(1, 10)),
                !.indirectEmissions = RMul(co2, Rat(9, 10))]

\* RailTransportCalculator.calculateEmissions
Rail_calculateEmissions(data, factor) ==
  TonneKmEmissions(data, factor, One, Rat(8, 10), Rat(1, 10), Rat(9, 10))

\* A sea split whose two shares do not add up to the whole.
Sea_calculateEmissions_BadSplit(data, factor) ==
  TonneKmEmissions(data, factor, One, Rat(85, 100), Rat(72, 100), Rat(38, 100))

\* SeaTransportCalculator.calculateEmissions
Sea_calculateEmissions(data, factor) ==
  TonneKmEmissions(data, factor, One, Rat(85, 100), Rat(72, 100), Rat(28, 100))

\* An air computation without the radiative forcing index.
Air_rfi_None == One

\* const rfi = 1.9 of AirTransportCalculator.calculateEmissions
Air_rfi == Rat(19, 10)

\* AirTransportCalculator.calculateEmissions
Air_calculateEmissions(data, factor) ==
  TonneKmEmissions(data, factor, Air_rfi, Rat(8, 10), Rat(75, 100), Rat(25, 100))

\* this.calculateEmissions
calculateEmissions(mode, data, factor) ==
  CASE mode = "road" -> Road_calculateEmissions(data, factor)
    [] mode = "rail" -> Rail_calculateEmissions(data, factor)
    [] mode = "sea" -> Sea_calculateEmissions(data, factor)
    [] mode = "air" -> Air_calculateEmissions(data, factor)


\* ----------------------------------------------------------- result assembly

\* EmissionCalculator.calculateIntensity
calculateIntensity(totalEmissions, data) ==
  IF Truthy(data.weight) /\ Truthy(data.distance)
  THEN RDiv(totalEmissions, RMul(data.weight, data.distance))
  ELSE IF Truthy(data.distance) THEN RDiv(totalEmissions, data.distance)
  ELSE totalEmissions

\* EmissionCalculator.calculateFuelEfficiency
calculateFuelEfficiency(data) ==
  IF Truthy(data.fuelConsumed) /\ Truthy(data.distance)
  THEN RDiv(data.distance, data.fuelConsumed)
  ELSE NoNumber

\* EmissionCalculator.getLoadUtilization
getLoadUtilization(mode, data) ==
  OrElse(data.loadFactor, DEFAULT_LOAD_FACTORS(mode))

\* The score EmissionCalculator.assessConfidence adds up
ConfidenceScore(data, factor) ==
  (IF Truthy(data.weight) THEN 2 ELSE 0)
  + (IF Truthy(data.distance) THEN 2 ELSE 0)
  + (IF Truthy(data.loadFactor) THEN 1 ELSE 0)
  + (IF Truthy(data.fuelConsumed) THEN 2 ELSE 0)
  + (IF factor.scope = "wtw" THEN 1 ELSE 0)
  + (IF TruthyStr(factor.region) THEN 1 ELSE 0)

\* EmissionCalculator.assessConfidence
assessConfidence(data, factor) ==
  LET score == ConfidenceScore(data, factor)
  IN  IF score >= 7 THEN "high" ELSE IF score >= 4 THEN "medium" ELSE "low"

\* `Load factor assumed: ${DEFAULT_LOAD_FACTORS[mode] * 100}%`
LoadFactorAssumed(mode) ==
  CASE mode = "road" -> "Load factor assumed: 70%"
    [] mode = "rail" -> "Load factor assumed: 80%"
    [] mode = "sea" -> "Load factor assumed: 85%"
    [] mode = "air" -> "Load factor assumed: 80%"

\* EmissionCalculator.getAssumptions
Base_getAssumptions(mode, data) ==
  PushIf(~Truthy(data.loadFactor), LoadFactorAssumed(mode))
  \o PushIf(data.emptyReturn # "true", "No empty return trip assumed")

\* RoadTransportCalculator.getAssumptions
Road_getAssumptions(data) ==
  Base_getAssumptions("road", data)
  \o PushIf(~TruthyStr(data.routeType), "Mixed highway/urban route assumed")
  \o PushIf(data.vehicle.type = "truck" /\ ~TruthyStr(data.vehicle.capacity),
            "Medium truck capacity assumed")
  \o PushIf(~Truthy(data.fuelConsumed),
            "Standard fuel efficiency assumed for vehicle type")

\* this.getAssumptions (only road overrides it)
getAssumptions(mode, data) ==
  IF mode = "road" THEN Road_getAssumptions(data)
  ELSE Base_getAssumptions(mode, data)

\* `GLEC_${this.transportMode.toUpperCase()}_v${GLEC_CONSTANTS.VERSION}`
CalculationMethod(mode) ==
  CASE mode = "road" -> "GLEC_ROAD_v3.1"
    [] mode = "rail" -> "GLEC_RAIL_v3.1"
    [] mode = "sea" -> "GLEC_SEA_v3.1"
    [] mode = "air" -> "GLEC_AIR_v3.1"

\* EmissionCalculator.buildResult (calculationId and calculatedAt, a random
\* suffix and the clock, are left out; fuelProduction and fuelTransport are 0).
buildResult(mode, activityData, emissionFactor, emissions) ==
  [input |-> [activityData |-> activityData,
              emissionFactor |-> emissionFactor,
              calculationMethod |-> CalculationMethod(mode)],
   emissions |-> [co2 |-> emissions.co2, ch4 |-> emissions.ch4,
                  n2o |-> emissions.n2o, total |-> emissions.total],
   breakdown |-> [directEmissions |-> emissions.directEmissions,
                  indirectEmissions |-> emissions.indirectEmissions,
                  fuelProduction |-> Zero, fuelTransport |-> Zero],
   metrics |-> [emissionIntensity |->
                  calculateIntensity(emissions.total, activityData),
                fuelEfficiency |-> calculateFuelEfficiency(activityData),
                loadUtilization |-> getLoadUtilization(mode, activityData)],
   metadata |-> [glecVersion |-> "3.1",
                 confidence |-> assessConfidence(activityData, emissionFactor),
                 assumptions |-> getAssumptions(mode, activityData)]]

\* Steps 2 to 5 of EmissionCalculator.calculate for a request that passed
\* validation, given what the factor lookup came back with.
CalculateResult(mode, data, resp) ==
  LET emissionFactor == getEmissionFactor(mode, data, resp)
      normalizedData == normalizeActivityData(mode, data)
      emissions == calculateEmissions(mode, normalizedData, emissionFactor)
  IN  buildResult(mode, normalizedData, emissionFactor, emissions)

\* A test that lets a single validation error through.
ValidationFails_MoreThanOne(validationErrors) == Len(validationErrors) > 1

\* if (validationErrors.length > 0) of EmissionCalculator.calculate
ValidationFails(validationErrors) == Len(validationErrors) > 0

\* A failure that reports the first error only.
ValidationFailure_FirstOnly(validationErrors) ==
  [name |-> "Error",
   message |-> <<"Validation failed: ", validationErrors[1].message>>]

\* new Error(`Validation failed: ${validationErrors.map(e => e.message).join(', ')}`)
ValidationFailure(validationErrors) ==
  [name |-> "Error",
   message |-> <<"Validation failed: ">>
               \o Join([i \in 1..Len(validationErrors) |->
                          validationErrors[i].message])]

\* error.message.includes('Validation failed') on a message kept as its pieces
IncludesValidationFailed(message) ==
  \E k \in 1..Len(message) : message[k] = "Validation failed: "

\* The catch block of POST /calculate: what the HTTP caller gets for a thrown
\* error.
CalculateErrorResponse(error) ==
  IF error.name = "Error" /\ IncludesValidationFailed(error.message)
  THEN [status |-> 400,
        body |-> [error |-> "Validation Error", message |-> error.message]]
  ELSE [status |-> 500,
        body |-> [error |-> "Calculation Error",
                  message |-> <<"Failed to calculate emissions">>]]


\* ----------------------------------------------------------------- registry

\* `Unsupported transport mode: ${mode}`
UnsupportedMode(mode) == <<"Unsupported transport mode: ", mode>>

\* A factory that answers an unsupported value with the road calculator.
createCalculator_RoadDefault(mode) ==
  IF mode \in TransportModes
  THEN [threw |-> FALSE, transportMode |-> mode, error |-> <<>>]
  ELSE [threw |-> FALSE, transportMode |-> "road", error |-> <<>>]

\* CalculatorFactory.createCalculator: the calculator constructed for the
\* mode (known by its transportMode), or the error thrown.
createCalculator(mode) ==
  IF mode \in TransportModes
  THEN [threw |-> FALSE, transportMode |-> mode, error |-> <<>>]
  ELSE [threw |-> TRUE, transportMode |-> "undefined",
        error |-> UnsupportedMode(mode)]

\* The static Map of CalculatorFactory with nothing cached.
NoCalculators == [m \in {} |-> 0]

\* A getCalculator that constructs a calculator on every call.
getCalculator_AlwaysConstruct(calcs, insts, mode) ==
  LET made == createCalculator(mode)
  IN  IF made.threw
      THEN [calculators |-> calcs, instances |-> insts, threw |-> TRUE,
            error |-> made.error, returned |-> 0]
      ELSE [calculators |-> (mode :> (Len(insts) + 1)) @@ calcs,
            instances |-> Append(insts, made.transportMode),
            threw |-> FALSE, error |-> <<>>, returned |-> Len(insts) + 1]

\* CalculatorFactory.getCalculator on a registry (calcs: the Map from mode to
\* instance, insts: every calculator constructed so far, an instance being
\* known by its position): the registry afterwards and what the call
\* returned or threw.
getCalculator(calcs, insts, mode) ==
  IF mode \in DOMAIN calcs
  THEN [calculators |-> calcs, instances |-> insts, threw |-> FALSE,
        error |-> <<>>, returned |-> calcs[mode]]
  ELSE LET made == createCalculator(mode)
       IN  IF made.threw
           THEN [calculators |-> calcs, instances |-> insts, threw |-> TRUE,
                 error |-> made.error, returned |-> 0]
           ELSE [calculators |-> (mode :> (Len(insts) + 1)) @@ calcs,
                 instances |-> Append(insts, made.transportMode),
                 threw |-> FALSE, error |-> <<>>,
                 returned |-> Len(insts) + 1]


\* -------------------------------------------------------------------- batch

\* z.enum of vehicleSchema.fuelType
FuelTypeEnum ==
  {"diesel", "petrol", "electric", "hybrid", "hfo", "mgo", "lng", "jet_fuel",
   "biodiesel", "hydrogen"}

\* z.enum of activityDataSchema.routeType
RouteTypeEnum == {"highway", "urban", "mixed", "international"}

\* activityDataSchema.safeParse(data).success
activityDataSchema(data) ==
  /\ data.transportMode \in TransportModes
  /\ TruthyStr(data.vehicle.type)
  /\ data.vehicle.fuelType \in FuelTypeEnum
  /\ Defined(data.distance) /\ RLt(Zero, data.distance)
  /\ ~Defined(data.weight) \/ RLe(Zero, data.weight)
  /\ \/ ~Defined(data.loadFactor)
     \/ (RLe(Zero, data.loadFactor) /\ RLe(data.loadFactor, One))
  /\ data.emptyReturn \in {"undefined", "true", "false"}
  /\ data.routeType \in {"undefined"} \cup RouteTypeEnum
  /\ ~Defined(data.fuelConsumed) \/ RLe(Zero, data.fuelConsumed)

\* .max(100) of batchCalculationSchema.calculations
BatchMaxItems == 100

\* batchCalculationSchema.safeParse(req.body).success
batchCalculationSchema(body) ==
  /\ Len(body.calculations) >= 1
  /\ Len(body.calculations) <= BatchMaxItems
  /\ \A k \in 1..Len(body.calculations) :
       activityDataSchema(body.calculations[k].activityData)
  /\ body.options.aggregateResults \in {"undefined", "true", "false"}

\* array.reduce((sum, x) => sum + x, 0) over the first k numbers of a list
RECURSIVE SumFirst(_, _)
SumFirst(values, k) ==
  IF k = 0 THEN Zero ELSE RAdd(SumFirst(values, k - 1), values[k])

\* array.reduce((sum, x) => sum + x, 0)
Sum(values) == SumFirst(values, Len(values))

\* The aggregate left undefined
NoAggregate == [defined |-> FALSE]

\* An aggregate that counts every request, failed ones included.
BatchAggregate_CountsRequests(body, results) ==
  IF body.options.aggregateResults = "true" /\ Len(results) > 0
  THEN [defined |-> TRUE,
        totalEmissions |->
          Sum([k \in 1..Len(results) |-> results[k].result.emissions.total]),
        averageIntensity |->
          RDiv(Sum([k \in 1..Len(results) |->
                      results[k].result.metrics.emissionIntensity]),
               Num(Len(body.calculations))),
        totalDistance |->
          Sum([k \in 1..Len(results) |->
                 OrElse(results[k].result.input.activityData.distance, Zero)]),
        totalWeight |->
          Sum([k \in 1..Len(results) |->
                 OrElse(results[k].result.input.activityData.weight, Zero)]),
        calculationCount |-> Len(body.calculations)]
  ELSE NoAggregate

\* The aggregate of POST /batch
BatchAggregate(body, results) ==
  IF body.options.aggregateResults = "true" /\ Len(results) > 0
  THEN [defined |-> TRUE,
        totalEmissions |->
          Sum([k \in 1..Len(results) |-> results[k].result.emissions.total]),
        averageIntensity |->
          RDiv(Sum([k \in 1..Len(results) |->
                      results[k].result.metrics.emissionIntensity]),
               Num(Len(results))),
        totalDistance |->
          Sum([k \in 1..Len(results) |->
                 OrElse(results[k].result.input.activityData.distance, Zero)]),
        totalWeight |->
          Sum([k \in 1..Len(results) |->
                 OrElse(results[k].result.input.activityData.weight, Zero)]),
        calculationCount |-> Len(results)]
  ELSE NoAggregate

\* A response whose individual[] lists the latest result first.
BatchSuccessResponse_Reversed(body, results, errors) ==
  [status |-> 200,
   body |-> [success |-> TRUE,
             individual |-> [k \in 1..Len(results) |->
                               results[Len(results) + 1 - k].result],
             aggregate |-> BatchAggregate(body, results),
             errors |-> [defined |-> Len(errors) > 0, entries |-> errors],
             summary |-> [totalRequests |-> Len(body.calculations),
                          successful |-> Len(results),
                          failed |-> Len(errors)]]]

\* res.json({success: true, individual, aggregate, errors, summary}) of
\* POST /batch (errors is left undefined when there are none)
BatchSuccessResponse(body, results, errors) ==
  [status |-> 200,
   body |-> [success |-> TRUE,
             individual |-> [k \in 1..Len(results) |-> results[k].result],
             aggregate |-> BatchAggregate(body, results),
             errors |-> [defined |-> Len(errors) > 0, entries |-> errors],
             summary |-> [totalRequests |-> Len(body.calculations),
                          successful |-> Len(results),
                          failed |-> Len(errors)]]]

\* res.status(401).json({error: 'Authentication required'}) of POST /batch
BatchUnauthenticated ==
  [status |-> 401, body |-> [error |-> "Authentication required"]]

\* res.status(400).json({error: 'Invalid batch request', details}) of
\* POST /batch
BatchInvalid ==
  [status |-> 400, body |-> [error |-> "Invalid batch request"]]

\* error instanceof Error ? error.message : 'Unknown error', for what
\* getCalculator or calculate threw
BatchItemError(index, message) == [index |-> index, error |-> message]


\* ------------------------------------------------------------------- inputs

\* How many of the listed positive distances (km) and weights (t) requests use.
NumDistances == 3
NumWeights == 3

DistanceValues == <<500, 300, 2000, 100>>
WeightValues == <<25, 50, 5, 1>>

\* distance: absent, zero, negative, or one of the positive values
Distances ==
  {NoNumber, Zero, Num(0 - 100)}
  \cup {Num(DistanceValues[i]) : i \in 1..NumDistances}

\* weight: absent, zero, negative, or one of the positive values
Weights ==
  {NoNumber, Zero, Num(0 - 5)} \cup {Num(WeightValues[i]) : i \in 1..NumWeights}

\* loadFactor: absent, the ends of [0,1], below the 0.1 floor, inside, outside
LoadFactors ==
  {NoNumber, Zero, Rat(1, 20), Rat(1, 2), One, Rat(3, 2), Rat(0 - 1, 2)}

\* vehicle.type: absent, canonical names, aliases, another letter case
RoadVehicleTypes ==
  {"undefined", "truck", "Truck", "lorry", "hgv", "van", "car"}

\* vehicle.fuelType: absent, listed fuels, one outside the FuelType list
RoadFuelTypes == {"undefined", "diesel", "electric", "coal"}

Vehicle(type, fuelType) ==
  [type |-> type, fuelType |-> fuelType, capacity |-> "undefined"]

\* The vehicles of the requests for each mode.
Vehicles(mode) ==
  CASE mode = "road" ->
         {Vehicle(t, f) : t \in RoadVehicleTypes, f \in RoadFuelTypes}
    [] mode = "rail" -> {Vehicle("freight_train", "electric")}
    [] mode = "sea" -> {Vehicle("container_ship", "hfo")}
    [] mode = "air" -> {Vehicle("cargo_plane", "jet_fuel")}

\* The ActivityData values a caller may pass to calculate.
ActivityDataOf(mode) ==
  [transportMode : {mode}, vehicle : Vehicles(mode), distance : Distances,
   weight : Weights, loadFactor : LoadFactors,
   emptyReturn : {"undefined", "true", "false"},
   routeType : {"undefined", "highway"},
   fuelConsumed : {NoNumber, Num(50)}]

\* ------------------------------------------------------------ service inputs

\* How many getCalculator calls and how many items of a batch the model follows.
MaxCalls == 3
MaxBatch == 3

\* The values getCalculator is called with: the four modes, a value outside
\* them and a mode in another letter case.
ModeValues == TransportModes \cup {"pipeline", "ROAD"}

\* One ActivityData value
Activity(mode, vehicle, distance, weight) ==
  [transportMode |-> mode, vehicle |-> vehicle, distance |-> distance,
   weight |-> weight, loadFactor |-> NoNumber, emptyReturn |-> "undefined",
   routeType |-> "undefined", fuelConsumed |-> NoNumber]

\* The requests a batch is made of: two that compute (one of them without
\* weight), one the request schema accepts and its calculator rejects (rail
\* without weight), one computed per tonne-km, and one with a mode outside the
\* four.
BatchItems ==
  { [activityData |-> Activity("road", Vehicle("truck", "diesel"),
                               Num(500), Num(25))],
    [activityData |-> Activity("road", Vehicle("van", "diesel"),
                               Num(100), NoNumber)],
    [activityData |-> Activity("rail", Vehicle("freight_train", "electric"),
                               Num(300), Num(50))],
    [activityData |-> Activity("rail", Vehicle("freight_train", "electric"),
                               Num(300), NoNumber)],
    [activityData |-> Activity("pipeline", Vehicle("pipe", "diesel"),
                               Num(100), Num(5))] }

\* Every list of at most n requests
RECURSIVE BatchesUpTo(_)
BatchesUpTo(n) ==
  IF n = 0 THEN {<<>>}
  ELSE BatchesUpTo(n - 1)
       \cup {Append(b, item) : b \in {c \in BatchesUpTo(n - 1) : Len(c) = n - 1},
                               item \in BatchItems}

\* The bodies of the POST /batch requests
BatchBodies ==
  [calculations : BatchesUpTo(MaxBatch),
   options : [aggregateResults : {"undefined", "true", "false"}]]

\* What the authentication step of POST /batch found: no credentials, or
\* credentials that verifyJWT or verifyAPIKey accepted.
BatchCredentials == {"none", "accepted"}

\* What the factor query of a batch item comes back with: an error, no rows
\* or one row.
BatchLookupResponses(q) ==
  {resp \in LookupResponses(q) : resp.kind # "throw" /\ Len(resp.rows) <= 1}

\* ------------------------------------------------------ concurrent requests

\* How many request handlers run at the same time.
NumCallers == 2

Callers == 1..NumCallers

\* The activity data of the concurrent requests: those of the batch items
\* that name one of the four modes.
ConcurrentRequests ==
  {item.activityData :
     item \in {b \in BatchItems : b.activityData.transportMode \in TransportModes}}

\* A handler that has not called calculate yet.
NoCall ==
  [pc |-> "idle", request |-> [kind |-> "none"], calculator |-> 0,
   response |-> [kind |-> "none", rows |-> <<>>],
   result |-> [kind |-> "none"],
   failure |-> [name |-> "none", message |-> <<>>]]

NoCalls == [c \in Callers |-> NoCall]

\* A calculate that keeps the request in a field of the calculator: a call
\* resumes with the request of the last caller that is waiting on the same
\* instance.
CallResult_SharedRequest(cs, insts, c, resp) ==
  LET waiting == {d \in DOMAIN cs : /\ cs[d].pc = "awaitFactor"
                                    /\ cs[d].calculator = cs[c].calculator}
      last == CHOOSE d \in waiting : \A e \in waiting : e <= d
  IN  CalculateResult(insts[cs[c].calculator], cs[last].request, resp)

\* EmissionCalculator.calculate of call c from its await on: everything it
\* reads is its own parameter and locals (request, emissionFactor,
\* normalizedData, emissions) and this.transportMode of its calculator.
CallResult(cs, insts, c, resp) ==
  CalculateResult(insts[cs[c].calculator], cs[c].request, resp)

\* ------------------------------------------------------------------ gateway

\* max of basicRateLimit: requests per IP and window
BasicRateLimitMax == 50

\* How many requests over the limit an IP is followed for within one window.
MaxOverLimit == 2

\* How many rows the api_keys table is followed up to.
MaxKeys == 2

\* crypto.randomBytes(32)
KeyBytes == 32

ClientIPs == {"10.0.0.1", "10.0.0.2"}

\* The store of basicRateLimit with no request counted.
NoHits == [ip \in ClientIPs |-> 0]

\* A header of a request: absent, or present with a value (a string, written
\* as the sequence of its pieces: characters for X-API-Key, words for
\* Authorization).
NoHeader == [present |-> FALSE, value |-> <<>>]
Header(value) == [present |-> TRUE, value |-> value]

\* if (header): an absent header is undefined, an empty one is ''
HeaderTruthy(h) == h.present /\ h.value # <<>>

\* String.prototype.startsWith
startsWith(s, prefix) ==
  Len(s) >= Len(prefix) /\ SubSeq(s, 1, Len(prefix)) = prefix

\* Buffer.toString('hex'): two lower-case hex digits per byte
RECURSIVE toHex(_)
toHex(bytes) ==
  LET digits == <<"0", "1", "2", "3", "4", "5", "6", "7", "8", "9",
                  "a", "b", "c", "d", "e", "f">>
  IN  IF bytes = <<>> THEN <<>>
      ELSE <<digits[(Head(bytes) \div 16) + 1], digits[(Head(bytes) % 16) + 1]>>
           \o toHex(Tail(bytes))

GlecPrefix == <<"g", "l", "e", "c", "_">>

\* `glec_${crypto.randomBytes(32).toString('hex')}` of POST /api-keys
KeyValue(bytes) == GlecPrefix \o toHex(bytes)

\* /^glec_(live|test)_[a-zA-Z0-9]{32}$/.test(apiKey)
apiKeyPattern(apiKey) ==
  LET alphaNumeric ==
        {"a", "b", "c", "d", "e", "f", "g", "h", "i", "j", "k", "l", "m",
         "n", "o", "p", "q", "r", "s", "t", "u", "v", "w", "x", "y", "z",
         "A", "B", "C", "D", "E", "F", "G", "H", "I", "J", "K", "L", "M",
         "N", "O", "P", "Q", "R", "S", "T", "U", "V", "W", "X", "Y", "Z",
         "0", "1", "2", "3", "4", "5", "6", "7", "8", "9"}
  IN  /\ Len(apiKey) = 5 + 5 + 32
      /\ SubSeq(apiKey, 1, 5) = GlecPrefix
      /\ SubSeq(apiKey, 6, 10) \in {<<"l", "i", "v", "e", "_">>,
                                    <<"t", "e", "s", "t", "_">>}
      /\ \A i \in 11..42 : apiKey[i] \in alphaNumeric

\* validateApiKeyFormat: whether the request is let through
validateApiKeyFormat(req) ==
  IF HeaderTruthy(req.apiKey) THEN apiKeyPattern(req.apiKey.value) ELSE TRUE

\* ipFilter: whether the request is let through (process.env.BLACKLISTED_IPS
\* and WHITELISTED_IPS are both unset)
ipFilter(req) ==
  LET blacklistedIPs == {}
      whitelistedIPs == {}
  IN  /\ req.ip \notin blacklistedIPs
      /\ whitelistedIPs = {} \/ req.ip \in whitelistedIPs

\* basicRateLimit: the store after counting the request, and whether the
\* request is over the limit of its IP.
basicRateLimit(store, req) ==
  [store |-> [store EXCEPT ![req.ip] = @ + 1],
   limited |-> store[req.ip] + 1 > BasicRateLimitMax]

\* A middleware's verdict: the request goes on as a user, or is answered.
Accepted(user) ==
  [accepted |-> TRUE, status |-> 0, error |-> "none", user |-> user]
Rejected(status, error) ==
  [accepted |-> FALSE, status |-> status, error |-> error, user |-> "none"]

\* verifyJWT reaches its await of supabase.auth.getUser
verifyJWT_Asks(req) ==
  HeaderTruthy(req.authorization)
  /\ startsWith(req.authorization.value, <<"Bearer ">>)

\* verifyJWT, given what supabase.auth.getUser(token) answers
verifyJWT(req, answer) ==
  IF ~verifyJWT_Asks(req) THEN Rejected(401, "Access token required")
  ELSE IF answer.kind = "throw" THEN Rejected(401, "Token verification failed")
  ELSE IF answer.kind = "error" \/ answer.user = "none"
  THEN Rejected(401, "Invalid or expired token")
  ELSE Accepted(answer.user)

\* verifyAPIKey reaches its await of the api_keys query
verifyAPIKey_Asks(req) ==
  HeaderTruthy(req.apiKey) /\ startsWith(req.apiKey.value, GlecPrefix)

\* verifyAPIKey, given what the api_keys query answers
verifyAPIKey(req, answer) ==
  IF ~HeaderTruthy(req.apiKey) THEN Rejected(401, "API key required")
  ELSE IF ~startsWith(req.apiKey.value, GlecPrefix)
  THEN Rejected(401, "Invalid API key format")
  ELSE IF answer.kind = "throw"
  THEN Rejected(401, "API key verification failed")
  ELSE IF answer.kind = "error" THEN Rejected(401, "Invalid API key")
  ELSE Accepted(answer.row.user_id)

\* What supabase.auth.getUser(token) can answer for the token of the request
\* (authHeader.substring(7)); supabase.auth knows the token t1 of user u1.
GetUserAnswers(req) ==
  LET tokenUsers == [t1 |-> "u1"]
      header == req.authorization.value
  IN  {[kind |-> "throw", user |-> "none"], [kind |-> "error", user |-> "none"]}
      \cup (IF Len(header) = 2 /\ header[2] \in DOMAIN tokenUsers
            THEN {[kind |-> "data", user |-> tokenUsers[header[2]]]}
            ELSE {[kind |-> "data", user |-> "none"]})

\* What .eq('key_hash', apiKey).eq('is_active', true).single() can answer on
\* a table: the one matching row, or an error (also for none or several).
ApiKeyAnswers(table, req) ==
  LET rows == {r \in table : r.key_hash = req.apiKey.value /\ r.is_active}
  IN  {[kind |-> "throw"], [kind |-> "error"]}
      \cup {[kind |-> "data", row |-> r] : r \in IF Cardinality(rows) = 1
                                                 THEN rows ELSE {}}

\* A route's middleware that tries the API key first.
RouteVerifier_KeyFirst(req) ==
  IF HeaderTruthy(req.apiKey) THEN "verifyAPIKey"
  ELSE IF HeaderTruthy(req.authorization) THEN "verifyJWT"
  ELSE "none"

\* The authentication middleware of POST /calculate and POST /batch: which
\* verifier it calls for the request, if any.
RouteVerifier(req) ==
  IF HeaderTruthy(req.authorization) THEN "verifyJWT"
  ELSE IF HeaderTruthy(req.apiKey) THEN "verifyAPIKey"
  ELSE "none"

\* What the chosen verifier can be answered by the service it asks.
VerifierAnswers(table, req) ==
  CASE RouteVerifier(req) = "verifyJWT" ->
         IF verifyJWT_Asks(req) THEN GetUserAnswers(req)
         ELSE {[kind |-> "unasked"]}
    [] RouteVerifier(req) = "verifyAPIKey" ->
         IF verifyAPIKey_Asks(req) THEN ApiKeyAnswers(table, req)
         ELSE {[kind |-> "unasked"]}
    [] RouteVerifier(req) = "none" -> {[kind |-> "unasked"]}

\* The verdict of the authentication middleware of the two routes.
RouteAuthentication(req, answer) ==
  CASE RouteVerifier(req) = "verifyJWT" -> verifyJWT(req, answer)
    [] RouteVerifier(req) = "verifyAPIKey" -> verifyAPIKey(req, answer)
    [] RouteVerifier(req) = "none" -> Rejected(401, "Authentication required")

\* The requests the gateway receives.
GatewayRequestOf(ip, route, authorization, apiKey, name) ==
  [ip |-> ip, route |-> route, authorization |-> authorization,
   apiKey |-> apiKey, name |-> name]

NoGatewayRequest ==
  GatewayRequestOf("none", "none", NoHeader, NoHeader, "undefined")

\* A response of the gateway: the status, the error it names, the place that
\* sent it, and the key a 201 of POST /api-keys carries.
GatewayAnswer(status, error, sentBy, key) ==
  [status |-> status, error |-> error, sentBy |-> sentBy, key |-> key]

NoGatewayResponse == GatewayAnswer(0, "none", "none", <<>>)

\* GET /health, given how the health_check query ends
HealthAnswer(db) ==
  IF db = "ok" THEN GatewayAnswer(200, "none", "GET /health", <<>>)
  ELSE IF db = "error"
  THEN GatewayAnswer(503, "none", "GET /health", <<>>)
  ELSE GatewayAnswer(503, "Health check failed", "GET /health", <<>>)

\* POST /api/v1/auth/api-keys behind verifyJWT, given what getUser answers,
\* the random bytes drawn and how the insert ends: the response and the
\* api_keys table afterwards.
CreateApiKey(req, table, answer, bytes, db) ==
  LET verdict == verifyJWT(req, answer)
  IN  IF ~verdict.accepted
      THEN [response |-> GatewayAnswer(verdict.status, verdict.error,
                                       "verifyJWT", <<>>),
            table |-> table]
      ELSE IF ~TruthyStr(req.name)
      THEN [response |-> GatewayAnswer(400, "Invalid input data",
                                       "POST /api-keys", <<>>),
            table |-> table]
      ELSE IF db = "throw"
      THEN [response |-> GatewayAnswer(500, "Internal server error",
                                       "POST /api-keys", <<>>),
            table |-> table]
      ELSE IF db = "error"
      THEN [response |-> GatewayAnswer(500, "Failed to create API key",
                                       "POST /api-keys", <<>>),
            table |-> table]
      ELSE [response |-> GatewayAnswer(201, "none", "POST /api-keys",
                                       KeyValue(bytes)),
            table |-> table \cup {[key_hash |-> KeyValue(bytes),
                                   user_id |-> verdict.user,
                                   is_active |-> TRUE]}]

\* The routes the gateway serves behind its app-level middleware. The limiters
\* mounted on the routes (10 per minute, 100 and 500 per window and key) are
\* not followed: the traffic of one window stays under them.
RouteAnswer(req, table, answer, bytes, db) ==
  CASE req.route = "GET /health" ->
         [response |-> HealthAnswer(db), table |-> table]
    [] req.route = "GET /api/v1/rate-limits" ->
         [response |-> GatewayAnswer(200, "none", req.route, <<>>),
          table |-> table]
    [] req.route = "POST /api/v1/auth/api-keys" ->
         CreateApiKey(req, table, answer, bytes, db)
    [] req.route = "POST /api/v1/calculations/calculate" ->
         \* the authentication middleware in front of the handler: the 401
         \* it sends, or the hand-over to the handler
         LET verdict == RouteAuthentication(req, answer)
         IN  [response |-> IF verdict.accepted
                           THEN GatewayAnswer(0, "none", "handler", <<>>)
                           ELSE GatewayAnswer(verdict.status, verdict.error,
                                              RouteVerifier(req), <<>>),
              table |-> table]

\* The app-level middleware in registration order (ipFilter, basicRateLimit,
\* validateApiKeyFormat; the ones that only set headers, log, delay or parse
\* are passed through), then the route: the response, the limiter's store and
\* the api_keys table afterwards.
GatewayHandle(store, table, req, answer, bytes, db) ==
  IF ~ipFilter(req)
  THEN [response |-> GatewayAnswer(403, "Access denied", "ipFilter", <<>>),
        store |-> store, table |-> table]
  ELSE LET counted == basicRateLimit(store, req)
       IN  IF counted.limited
           THEN [response |-> GatewayAnswer(429, "Rate limit exceeded",
                                            "basicRateLimit", <<>>),
                 store |-> counted.store, table |-> table]
           ELSE IF ~validateApiKeyFormat(req)
           THEN [response |-> GatewayAnswer(401, "Invalid API key format",
                                            "validateApiKeyFormat", <<>>),
                 store |-> counted.store, table |-> table]
           ELSE LET routed == RouteAnswer(req, table, answer, bytes, db)
                IN  [response |-> routed.response, store |-> counted.store,
                     table |-> routed.table]

\* What crypto.randomBytes(32) can return (one value repeated: 0x00, 0xab).
RandomBytes == {[i \in 1..KeyBytes |-> b] : b \in {0, 171}}

\* A key of the form validateApiKeyFormat asks for.
LiveKey == GlecPrefix \o <<"l", "i", "v", "e", "_">> \o [i \in 1..32 |-> "7"]

\* The requests of the rate-limit traffic: no credentials, two IPs.
RateLimitRequests ==
  {GatewayRequestOf(ip, route, NoHeader, NoHeader, "undefined") :
     ip \in ClientIPs, route \in {"GET /health", "GET /api/v1/rate-limits"}}

\* The requests of the API-key traffic from one IP: key creation with and
\* without a good token and name, and requests that present a key of the
\* table, a key of the documented form, or something else.
KeyRequests(table) ==
  {GatewayRequestOf("10.0.0.1", "POST /api/v1/auth/api-keys", a, NoHeader, n) :
     a \in {NoHeader, Header(<<"Bearer ", "t1">>), Header(<<"Bearer ", "tx">>)},
     n \in {"", "ci"}}
  \cup {GatewayRequestOf("10.0.0.1", route, NoHeader, Header(k), "undefined") :
          route \in {"GET /health", "POST /api/v1/calculations/calculate"},
          k \in {r.key_hash : r \in table}
                \cup {LiveKey, <<"x", "y", "z">>}}

\* What the services behind a request can answer to it.
AnswersFor(table, req) ==
  CASE req.route = "POST /api/v1/auth/api-keys" ->
         IF verifyJWT_Asks(req) THEN GetUserAnswers(req)
         ELSE {[kind |-> "unasked"]}
    [] req.route = "POST /api/v1/calculations/calculate" ->
         VerifierAnswers(table, req)
    [] OTHER -> {[kind |-> "unasked"]}

\* How the query or insert of the request's route can end.
DbFor(req) ==
  IF req.route \in {"GET /health", "POST /api/v1/auth/api-keys"}
  THEN {"ok", "error", "throw"} ELSE {"ok"}

\* ------------------------------------------------------ authenticated routes

\* request.options?.roundingPrecision ?? 2
DefaultRoundingPrecision == 2

RECURSIVE Pow10(_)
Pow10(p) == IF p = 0 THEN 1 ELSE 10 * Pow10(p - 1)

\* Math.round(num * Math.pow(10, precision)) / Math.pow(10, precision)
round(num, precision) ==
  IF ~Defined(num) THEN NoNumber
  ELSE LET scaled == RMul(num, Num(Pow10(precision)))
       IN  Rat((2 * scaled.n + scaled.d) \div (2 * scaled.d), Pow10(precision))

\* roundEmissions
roundEmissions(r, precision) ==
  [r EXCEPT
     !.emissions.total = round(r.emissions.total, precision),
     !.emissions.co2 = round(r.emissions.co2, precision),
     !.emissions.ch4 = IF Truthy(r.emissions.ch4)
                       THEN round(r.emissions.ch4, precision) ELSE NoNumber,
     !.emissions.n2o = IF Truthy(r.emissions.n2o)
                       THEN round(r.emissions.n2o, precision) ELSE NoNumber,
     !.breakdown.directEmissions =
        round(r.breakdown.directEmissions, precision),
     !.breakdown.indirectEmissions =
        round(r.breakdown.indirectEmissions, precision),
     !.metrics.emissionIntensity =
        round(r.metrics.emissionIntensity, precision)]

\* calculationRequestSchema.safeParse(req.body).success
calculationRequestSchema(body) == activityDataSchema(body.activityData)

\* The 200 of POST /calculate
CalculateSuccessResponse(r) ==
  [status |-> 200,
   body |-> [success |-> TRUE,
             result |-> roundEmissions(r, DefaultRoundingPrecision),
             glecVersion |-> r.metadata.glecVersion]]

\* The 400 of POST /calculate for a body the schema rejects
CalculateInvalid == [status |-> 400, body |-> [error |-> "Invalid input data"]]

\* The 401 a route's authentication middleware or its verifier sends
Unauthenticated(error) == [status |-> 401, body |-> [error |-> error]]

\* The 401 of the middleware itself, for a request without credentials
NoCredentials(route) ==
  IF route = "POST /calculate"
  THEN Unauthenticated(
         "Authentication required. Provide either JWT token or API key.")
  ELSE Unauthenticated("Authentication required")

AuthRequestOf(route, authorization, apiKey) ==
  [route |-> route, authorization |-> authorization, apiKey |-> apiKey,
   user |-> "none"]

NoAuthRequest == AuthRequestOf("none", NoHeader, NoHeader)

\* The Authorization headers of the requests: absent, empty, a token of a
\* user, a token of nobody, no token, another scheme.
AuthorizationHeaders ==
  {NoHeader, Header(<<>>), Header(<<"Bearer ", "t1">>),
   Header(<<"Bearer ", "tx">>), Header(<<"Bearer ">>),
   Header(<<"Basic ", "dXNlcg">>)}

\* The X-API-Key headers: absent, a key of the table, a key that is not in
\* the table, a value without the prefix.
ApiKeyHeaders(table) ==
  {NoHeader, Header(LiveKey), Header(<<"x", "y", "z">>)}
  \cup {Header(r.key_hash) : r \in table}

\* The bodies of the POST /batch requests of the authenticated traffic
AuthBatchBodies == {b \in BatchBodies : Len(b.calculations) <= 1}

\* The calculation handler has not run.
NoHandler == [ran |-> FALSE, calculator |-> 0, body |-> [kind |-> "none"]]


\* -------------------------------------------------------------------- state

VARIABLES
  pc,                \* where the calculate call is: idle, awaitFactor, returned, threw
  request,           \* request.activityData of the call
  validationErrors,  \* the local validationErrors of calculate
  stages,            \* the stages of the pipeline entered so far, in order
  lookups,           \* the factor queries issued to the provider so far
  response,          \* what the awaited factor query came back with
  result,            \* the EmissionCalculationResult calculate returned
  failure,           \* the Error calculate threw
  calculators,       \* CalculatorFactory.calculators: mode -> cached instance
  instances,         \* the mode of every calculator constructed, in order
  getCalls,          \* the getCalculator calls so far and how each ended
  batchPc,           \* where the POST /batch handler is: idle, loop, responded
  batchRequest,      \* req.body of the batch request
  batchIndex,        \* the loop variable i of the batch handler
  results,           \* the local results of the batch handler
  errors,            \* the local errors of the batch handler
  batchResponse,     \* what the batch handler sent
  calls,             \* the concurrent POST /calculate handlers, one per caller
  callLog,           \* the steps the concurrent handlers took, in order
  hits,              \* basicRateLimit's store: requests per IP in the window
  apiKeys,           \* the rows of the api_keys table
  gatewayRequest,    \* the last request the gateway received
  gatewayResponse,   \* what the gateway answered to it
  authPc,            \* where the authenticated route is: idle, verifying, accepted, handling, done
  authRequest,       \* the request the authenticated route received
  authVerifiers,     \* the verifiers the route's middleware called, in order
  authResponses,     \* the responses sent to the request, in order
  authHandler        \* what the calculation handler of the route did

calculateVars ==
  <<pc, request, validationErrors, stages, lookups, response, result, failure>>

registryVars == <<calculators, instances, getCalls>>

batchVars ==
  <<batchPc, batchRequest, batchIndex, results, errors, batchResponse>>

concurrentVars == <<calls, callLog>>

gatewayVars == <<hits, apiKeys, gatewayRequest, gatewayResponse>>

authVars ==
  <<authPc, authRequest, authVerifiers, authResponses, authHandler>>

serviceVars == <<concurrentVars, gatewayVars, authVars>>

vars == <<calculateVars, registryVars, batchVars, serviceVars>>

NoRequest == [kind |-> "none"]
NoResponse == [kind |-> "none", rows |-> <<>>]
NoResult == [kind |-> "none"]
NoFailure == [name |-> "none", message |-> <<>>]
NoBatch == [calculations |-> <<>>, options |-> [aggregateResults |-> "undefined"]]
NoBatchResponse == [status |-> 0, body |-> [error |-> "none"]]

Init ==
  /\ pc = "idle"
  /\ request = NoRequest
  /\ validationErrors = <<>>
  /\ stages = <<>>
  /\ lookups = <<>>
  /\ response = NoResponse
  /\ result = NoResult
  /\ failure = NoFailure
  /\ calculators = NoCalculators
  /\ instances = <<>>
  /\ getCalls = <<>>
  /\ batchPc = "idle"
  /\ batchRequest = NoBatch
  /\ batchIndex = 0
  /\ results = <<>>
  /\ errors = <<>>
  /\ batchResponse = NoBatchResponse
  /\ calls = NoCalls
  /\ callLog = <<>>
  /\ hits = NoHits
  /\ apiKeys = {}
  /\ gatewayRequest = NoGatewayRequest
  /\ gatewayResponse = NoGatewayResponse
  /\ authPc = "idle"
  /\ authRequest = NoAuthRequest
  /\ authVerifiers = <<>>
  /\ authResponses = <<>>
  /\ authHandler = NoHandler

\* EmissionCalculator.calculate up to its await: validation, then either the
\* throw or the factor query of getEmissionFactor.
CalculateBegin(mode, data) ==
  LET errs == validateInput(mode, data)
  IN  /\ pc = "idle"
      /\ request' = data
      /\ validationErrors' = errs
      /\ IF ValidationFails(errs)
         THEN /\ pc' = "threw"
              /\ failure' = ValidationFailure(errs)
              /\ stages' = <<"validate">>
              /\ lookups' = lookups
         ELSE /\ pc' = "awaitFactor"
              /\ failure' = failure
              /\ stages' = <<"validate", "resolve">>
              /\ lookups' = Append(lookups, FactorQuery(mode, data))
      /\ UNCHANGED <<response, result, registryVars, batchVars, serviceVars>>

\* EmissionCalculator.calculate from the point the awaited query settles:
\* the factor is resolved, the data normalized, the emissions computed and the
\* result built and returned.
CalculateResume(resp) ==
  /\ pc = "awaitFactor"
  /\ response' = resp
  /\ result' = CalculateResult(request.transportMode, request, resp)
  /\ stages' = stages \o <<"normalize", "compute", "assemble">>
  /\ pc' = "returned"
  /\ UNCHANGED <<request, validationErrors, lookups, failure>>
  /\ UNCHANGED <<registryVars, batchVars, serviceVars>>

Calculate ==
  /\ pc = "idle"
  /\ \E mode \in TransportModes : \E data \in ActivityDataOf(mode) :
       CalculateBegin(mode, data)

FactorLookupReturns ==
  /\ pc = "awaitFactor"
  /\ \E resp \in LookupResponses(lookups[Len(lookups)]) : CalculateResume(resp)

Next == Calculate \/ FactorLookupReturns

Spec == Init /\ [][Next]_vars

\* One call of CalculatorFactory.getCalculator. The method has no await, so
\* calls made by concurrent requests happen one after another, in any order.
GetCalculatorCall(mode) ==
  LET out == getCalculator(calculators, instances, mode)
  IN  /\ Len(getCalls) < MaxCalls
      /\ calculators' = out.calculators
      /\ instances' = out.instances
      /\ getCalls' = Append(getCalls,
                            [mode |-> mode, threw |-> out.threw,
                             error |-> out.error, returned |-> out.returned])
      /\ UNCHANGED <<calculateVars, batchVars, serviceVars>>

GetCalculator == \E mode \in ModeValues : GetCalculatorCall(mode)

RegistryNext == GetCalculator

RegistrySpec == Init /\ [][RegistryNext]_vars

\* POST /batch up to its loop: the authentication step, then the request
\* schema; a request that fails either is answered at once.
BatchReceiveBody(credentials, body) ==
  /\ batchPc = "idle"
  /\ batchRequest' = body
  /\ IF credentials = "none"
     THEN batchPc' = "responded" /\ batchResponse' = BatchUnauthenticated
     ELSE IF ~batchCalculationSchema(body)
     THEN batchPc' = "responded" /\ batchResponse' = BatchInvalid
     ELSE batchPc' = "loop" /\ batchResponse' = batchResponse
  /\ UNCHANGED <<batchIndex, results, errors, calculateVars, registryVars>>
  /\ UNCHANGED serviceVars

BatchReceive ==
  /\ batchPc = "idle"
  /\ \E credentials \in BatchCredentials : \E body \in BatchBodies :
       BatchReceiveBody(credentials, body)

\* One round of the loop of POST /batch for item i, given what the factor
\* query of its calculation comes back with: getCalculator, calculate, and the
\* push to results or, for whatever either threw, to errors.
BatchProcessItem(resp) ==
  LET item == batchRequest.calculations[batchIndex + 1]
      mode == item.activityData.transportMode
      got == getCalculator(calculators, instances, mode)
      errs == validateInput(mode, item.activityData)
  IN  /\ calculators' = got.calculators
      /\ instances' = got.instances
      /\ getCalls' = getCalls
      /\ IF got.threw
         THEN /\ errors' = Append(errors, BatchItemError(batchIndex, got.error))
              /\ results' = results
         ELSE IF ValidationFails(errs)
         THEN /\ errors' = Append(errors,
                                  BatchItemError(batchIndex,
                                                 ValidationFailure(errs).message))
              /\ results' = results
         ELSE /\ results' = Append(results,
                                   [index |-> batchIndex,
                                    result |-> CalculateResult(
                                                 mode, item.activityData, resp)])
              /\ errors' = errors
      /\ batchIndex' = batchIndex + 1
      /\ UNCHANGED <<batchPc, batchRequest, batchResponse, calculateVars>>
      /\ UNCHANGED serviceVars

BatchItem ==
  /\ batchPc = "loop"
  /\ batchIndex < Len(batchRequest.calculations)
  /\ LET data == batchRequest.calculations[batchIndex + 1].activityData
     IN  IF data.transportMode \in TransportModes
            /\ ~ValidationFails(validateInput(data.transportMode, data))
         THEN \E resp \in BatchLookupResponses(
                            FactorQuery(data.transportMode, data)) :
                BatchProcessItem(resp)
         ELSE BatchProcessItem(NoResponse)

\* POST /batch after its loop: the aggregate and the response.
BatchRespond ==
  /\ batchPc = "loop"
  /\ batchIndex = Len(batchRequest.calculations)
  /\ batchResponse' = BatchSuccessResponse(batchRequest, results, errors)
  /\ batchPc' = "responded"
  /\ UNCHANGED <<batchRequest, batchIndex, results, errors, calculateVars,
                 registryVars, serviceVars>>

BatchNext == BatchReceive \/ BatchItem \/ BatchRespond

BatchSpec == Init /\ [][BatchNext]_vars


\* A request handler calls CalculatorFactory.getCalculator with the mode of
\* its request and calculate on the calculator it gets; calculate runs up to
\* its await: validation, then the throw or the factor query.
CallBegin(c, data) ==
  LET got == getCalculator(calculators, instances, data.transportMode)
      errs == validateInput(got.instances[got.returned], data)
  IN  /\ calls[c].pc = "idle"
      /\ calculators' = got.calculators
      /\ instances' = got.instances
      /\ calls' = [calls EXCEPT ![c] =
                     IF ValidationFails(errs)
                     THEN [@ EXCEPT !.pc = "threw", !.request = data,
                                    !.calculator = got.returned,
                                    !.failure = ValidationFailure(errs)]
                     ELSE [@ EXCEPT !.pc = "awaitFactor", !.request = data,
                                    !.calculator = got.returned]]
      /\ callLog' = Append(callLog, [caller |-> c, step |-> "begin"])
      /\ UNCHANGED <<calculateVars, getCalls, batchVars, gatewayVars, authVars>>

\* The awaited factor query of call c settles and calculate runs to its
\* return.
CallResume(c, resp) ==
  /\ calls[c].pc = "awaitFactor"
  /\ calls' = [calls EXCEPT ![c] =
                 [@ EXCEPT !.pc = "returned", !.response = resp,
                           !.result = CallResult(calls, instances, c, resp)]]
  /\ callLog' = Append(callLog, [caller |-> c, step |-> "resume"])
  /\ UNCHANGED <<calculateVars, registryVars, batchVars, gatewayVars, authVars>>

CallStarts ==
  \E c \in Callers :
    /\ calls[c].pc = "idle"
    /\ \E data \in ConcurrentRequests : CallBegin(c, data)

CallLookupReturns ==
  \E c \in Callers :
    /\ calls[c].pc = "awaitFactor"
    /\ \E resp \in BatchLookupResponses(
                     FactorQuery(calls[c].request.transportMode,
                                 calls[c].request)) :
         CallResume(c, resp)

ConcurrentNext == CallStarts \/ CallLookupReturns

ConcurrentSpec == Init /\ [][ConcurrentNext]_vars

\* The gateway receives a request and answers it (or hands it to the
\* calculation handler).
GatewayReceive(req, answer, bytes, db) ==
  LET out == GatewayHandle(hits, apiKeys, req, answer, bytes, db)
  IN  /\ hits[req.ip] < BasicRateLimitMax + MaxOverLimit
      /\ req.route = "POST /api/v1/auth/api-keys" =>
           /\ Cardinality(apiKeys) < MaxKeys
           /\ KeyValue(bytes) \notin {r.key_hash : r \in apiKeys}
      /\ gatewayRequest' = req
      /\ gatewayResponse' = out.response
      /\ hits' = out.store
      /\ apiKeys' = out.table
      /\ UNCHANGED <<calculateVars, registryVars, batchVars, concurrentVars,
                     authVars>>

\* The window of an IP ends: its count expires from the store.
WindowExpires ==
  \E ip \in ClientIPs :
    /\ hits[ip] > 0
    /\ hits' = [hits EXCEPT ![ip] = 0]
    /\ UNCHANGED <<apiKeys, gatewayRequest, gatewayResponse>>
    /\ UNCHANGED <<calculateVars, registryVars, batchVars, concurrentVars,
                   authVars>>

RateLimitTraffic ==
  \E req \in RateLimitRequests : \E db \in DbFor(req) :
    GatewayReceive(req, [kind |-> "unasked"], <<>>, db)

KeyTraffic ==
  \E req \in KeyRequests(apiKeys) :
    \E answer \in AnswersFor(apiKeys, req) :
      \E bytes \in IF req.route = "POST /api/v1/auth/api-keys"
                    THEN RandomBytes ELSE {<<>>} :
        \E db \in DbFor(req) :
        GatewayReceive(req, answer, bytes, db)

RateLimitNext == RateLimitTraffic \/ WindowExpires

RateLimitSpec == Init /\ [][RateLimitNext]_vars

KeyNext == KeyTraffic \/ WindowExpires

KeySpec == Init /\ [][KeyNext]_vars

\* A request reaches the authentication middleware of POST /calculate or
\* POST /batch: it sends the 401 itself when neither header is set, and
\* otherwise calls the verifier the headers select, which runs up to its
\* await or, with nothing to ask, sends its 401.
AuthReceive(route, authorization, apiKey) ==
  LET req == AuthRequestOf(route, authorization, apiKey)
      verifier == RouteVerifier(req)
      asks == \/ verifier = "verifyJWT" /\ verifyJWT_Asks(req)
              \/ verifier = "verifyAPIKey" /\ verifyAPIKey_Asks(req)
  IN  /\ authPc = "idle"
      /\ authRequest' = req
      /\ authVerifiers' = IF verifier = "none" THEN <<>> ELSE <<verifier>>
      /\ IF verifier = "none"
         THEN authResponses' = <<NoCredentials(route)>> /\ authPc' = "done"
         ELSE IF asks
         THEN authResponses' = <<>> /\ authPc' = "verifying"
         ELSE /\ authResponses' =
                   <<Unauthenticated(
                       RouteAuthentication(req, [kind |-> "unasked"]).error)>>
              /\ authPc' = "done"
      /\ UNCHANGED <<authHandler, calculateVars, registryVars, batchVars,
                     concurrentVars, gatewayVars>>

\* The service the verifier asked answers: the verifier sets req.user and
\* calls next(), or sends its 401.
AuthVerifierSettles(answer) ==
  LET verdict == RouteAuthentication(authRequest, answer)
  IN  /\ authPc = "verifying"
      /\ IF verdict.accepted
         THEN /\ authRequest' = [authRequest EXCEPT !.user = verdict.user]
              /\ authResponses' = authResponses
              /\ authPc' = "accepted"
         ELSE /\ authRequest' = authRequest
              /\ authResponses' =
                   Append(authResponses, Unauthenticated(verdict.error))
              /\ authPc' = "done"
      /\ UNCHANGED <<authVerifiers, authHandler, calculateVars, registryVars,
                     batchVars, concurrentVars, gatewayVars>>

\* trackAPIUsage: the usage row is written or not, and next() is called
\* either way.
AuthTrackUsage ==
  /\ authPc = "accepted"
  /\ authPc' = "handler"
  /\ UNCHANGED <<authRequest, authVerifiers, authResponses, authHandler,
                 calculateVars, registryVars, batchVars, concurrentVars,
                 gatewayVars>>

\* The handler of POST /calculate up to the await inside calculate: the
\* schema, getCalculator, the validation; it answers 400 for a body the
\* schema or the validation rejects.
AuthCalculateBegin(body) ==
  LET data == body.activityData
      got == getCalculator(calculators, instances, data.transportMode)
      errs == validateInput(data.transportMode, data)
  IN  /\ authPc = "handler"
      /\ authRequest.route = "POST /calculate"
      /\ IF ~calculationRequestSchema(body)
         THEN /\ authResponses' = Append(authResponses, CalculateInvalid)
              /\ authHandler' = [ran |-> TRUE, calculator |-> 0, body |-> body]
              /\ authPc' = "done"
              /\ UNCHANGED <<calculators, instances>>
         ELSE /\ calculators' = got.calculators
              /\ instances' = got.instances
              /\ authHandler' = [ran |-> TRUE, calculator |-> got.returned,
                                 body |-> body]
              /\ IF ValidationFails(errs)
                 THEN /\ authResponses' =
                           Append(authResponses,
                                  CalculateErrorResponse(ValidationFailure(errs)))
                      /\ authPc' = "done"
                 ELSE authResponses' = authResponses /\ authPc' = "awaitFactor"
      /\ UNCHANGED <<authRequest, authVerifiers, getCalls, calculateVars,
                     batchVars, concurrentVars, gatewayVars>>

\* The handler of POST /calculate from the point the factor query settles:
\* the result, the insert into emissions_calculations (a failed insert is
\* logged, a rejected one is caught as a calculation error), the response.
AuthCalculateResume(resp, store) ==
  LET data == authHandler.body.activityData
      calculated == CalculateResult(instances[authHandler.calculator], data, resp)
  IN  /\ authPc = "awaitFactor"
      /\ authResponses' =
           Append(authResponses,
                  IF store = "throw"
                  THEN CalculateErrorResponse(
                         [name |-> "Error", message |-> <<"fetch failed">>])
                  ELSE CalculateSuccessResponse(calculated))
      /\ authPc' = "done"
      /\ UNCHANGED <<authRequest, authVerifiers, authHandler, calculateVars,
                     registryVars, batchVars, concurrentVars, gatewayVars>>

\* A user creates an API key before the request is sent.
AuthKeyIssue ==
  /\ authPc = "idle"
  /\ \E bytes \in RandomBytes :
       GatewayReceive(
         GatewayRequestOf("10.0.0.1", "POST /api/v1/auth/api-keys",
                          Header(<<"Bearer ", "t1">>), NoHeader, "ci"),
         [kind |-> "data", user |-> "u1"], bytes, "ok")

AuthReceives ==
  /\ authPc = "idle"
  /\ \E route \in {"POST /calculate", "POST /batch"} :
     \E authorization \in AuthorizationHeaders :
       \E apiKey \in ApiKeyHeaders(apiKeys) :
         AuthReceive(route, authorization, apiKey)

AuthVerifierAnswers ==
  /\ authPc = "verifying"
  /\ \E answer \in VerifierAnswers(apiKeys, authRequest) :
       AuthVerifierSettles(answer)

AuthCalculateStarts ==
  /\ authPc = "handler"
  /\ \E body \in BatchItems : AuthCalculateBegin(body)

AuthCalculateLookupReturns ==
  /\ authPc = "awaitFactor"
  /\ \E resp \in BatchLookupResponses(
                   FactorQuery(authHandler.body.activityData.transportMode,
                               authHandler.body.activityData)) :
       \E store \in {"ok", "error", "throw"} : AuthCalculateResume(resp, store)

\* The handler of POST /batch, entered by an authenticated request.
AuthBatchStarts ==
  /\ authPc = "handler"
  /\ authRequest.route = "POST /batch"
  /\ \E body \in AuthBatchBodies : BatchReceiveBody("accepted", body)

AuthNext ==
  \/ AuthKeyIssue
  \/ AuthReceives
  \/ AuthVerifierAnswers
  \/ AuthTrackUsage
  \/ AuthCalculateStarts
  \/ AuthCalculateLookupReturns
  \/ AuthBatchStarts
  \/ BatchItem
  \/ BatchRespond

AuthSpec == Init /\ [][AuthNext]_vars

\* ------------------------------------------------------------------- claims

Range(seq) == {seq[i] : i \in 1..Len(seq)}

Called == pc # "idle"
Returned == pc = "returned"
Threw == pc = "threw"
Mode == request.transportMode

\* A result with every required part present.
CompleteResult(r) ==
  /\ Defined(r.emissions.co2) /\ Defined(r.emissions.total)
  /\ Defined(r.breakdown.directEmissions)
  /\ Defined(r.breakdown.indirectEmissions)
  /\ Defined(r.metrics.emissionIntensity)
  /\ Defined(r.metrics.loadUtilization)
  /\ r.metadata.confidence \in {"high", "medium", "low"}
  /\ r.metadata.glecVersion = "3.1"
  /\ Defined(r.input.emissionFactor.co2Factor)
  /\ r.input.activityData.transportMode = Mode

\* The lookup failed or found nothing: an explicit error, a rejected query,
\* or an empty list.
LookupFailed == response.kind \in {"error", "throw"}
                \/ (response.kind = "data" /\ Len(response.rows) = 0)

\* C1: in every mode, when validateInput returns one or more errors, calculate
\* throws, and the failure it throws carries the message of every one of
\* those errors, one entry per error and in their order, not only the first.
C1_AllErrorsReported ==
  (Called /\ Len(validationErrors) > 0) =>
    /\ Threw
    /\ validationErrors = validateInput(Mode, request)
    /\ failure.name = "Error"
    /\ failure.message[1] = "Validation failed: "
    /\ Len(failure.message) = 2 * Len(validationErrors)
    /\ \A i \in 1..Len(validationErrors) :
         failure.message[2 * i] = validationErrors[i].message

\* A road call that violated all five rules, and threw.
C1_Witness ==
  Threw /\ Mode = "road" /\ Len(validationErrors) = 5

StageOrder == <<"validate", "resolve", "normalize", "compute", "assemble">>

\* C2: the stages of one call run at most once each and in the order
\* validate, resolve, normalize, compute, assemble; after a validation error
\* no later stage runs and no factor query is issued; the call ends with a
\* complete result or with the validation failure, never with both or a part.
C2_StagesInOrder ==
  /\ Len(stages) <= Len(StageOrder)
  /\ \A i \in 1..Len(stages) : stages[i] = StageOrder[i]
  /\ (Called /\ Len(validationErrors) > 0) =>
       (stages = <<"validate">> /\ lookups = <<>> /\ Threw)
  /\ Threw => (result = NoResult /\ failure = ValidationFailure(validationErrors)
               /\ Len(validationErrors) > 0)
  /\ Returned => (stages = StageOrder /\ Len(lookups) = 1
                  /\ failure = NoFailure /\ validationErrors = <<>>
                  /\ CompleteResult(result))
  /\ pc = "awaitFactor" => (result = NoResult /\ failure = NoFailure)

\* A call that ran all five stages, in order, and returned.
C2_Witness ==
  Returned /\ stages = StageOrder /\ Mode = "sea"

\* The default co2 factor of each mode, road by vehicle type with the truck
\* factor for any type not listed.
C3_DefaultCo2(mode, vehicleType) ==
  CASE mode = "rail" -> Rat(28, 1000)
    [] mode = "sea" -> Rat(11, 1000)
    [] mode = "air" -> Rat(602, 1000)
    [] mode = "road" ->
         CASE toLowerCase(vehicleType) = "truck" -> Rat(79, 1000)
           [] toLowerCase(vehicleType) = "van" -> Rat(195, 1000)
           [] toLowerCase(vehicleType) = "car" -> Rat(171, 1000)
           [] toLowerCase(vehicleType) = "motorcycle" -> Rat(84, 1000)
           [] toLowerCase(vehicleType) = "heavy_truck" -> Rat(125, 1000)
           [] toLowerCase(vehicleType) = "light_truck" -> Rat(65, 1000)
           [] OTHER -> Rat(79, 1000)

\* C3: in every mode and for every valid request, when the factor lookup
\* returns an error, throws or returns no rows, calculate returns a complete
\* result computed with the mode's default factor, and throws nothing.
C3_LookupFailureUsesDefault ==
  (Called /\ pc # "awaitFactor" /\ Len(validationErrors) = 0 /\ LookupFailed) =>
    /\ Returned /\ failure = NoFailure /\ CompleteResult(result)
    /\ result.input.emissionFactor.co2Factor
         = C3_DefaultCo2(Mode, request.vehicle.type)
    /\ result.input.emissionFactor.unit = (IF Mode = "road" THEN "km" ELSE "tkm")
    /\ result.input.emissionFactor.source = DefaultSource
    /\ result.emissions.co2
         = calculateEmissions(Mode, result.input.activityData,
             [result.input.emissionFactor EXCEPT
                !.co2Factor = C3_DefaultCo2(Mode, request.vehicle.type)]).co2

\* A road call for a vehicle type without a default of its own whose lookup
\* threw, answered with the truck factor.
C3_Witness ==
  /\ Returned /\ Mode = "road" /\ request.vehicle.type = "hgv"
  /\ response.kind = "throw"
  /\ result.input.emissionFactor.co2Factor = Rat(79, 1000)


\* The factor of the result is a substituted default, not a looked-up one.
UsedDefaultFactor == result.input.emissionFactor.source = DefaultSource

\* C4: a result computed with a substituted default factor has, in its
\* metadata.assumptions, an entry that the result for the same activity data
\* computed with a looked-up factor does not have.
C4_DefaultFactorRecorded ==
  (Returned /\ UsedDefaultFactor) =>
    \A resp \in LookupResponses(lookups[1]) :
      HasRows(resp) =>
        \E a \in Range(result.metadata.assumptions) :
          a \notin Range(CalculateResult(Mode, request, resp).metadata.assumptions)

\* The load factor the caller supplied, floored at 0.1.
C5_FlooredLoad == RMax(request.loadFactor, Rat(1, 10))

\* C5: a valid road request with a factor per km, no empty return and a
\* caller-supplied loadFactor L in [0,1], L = 0 included, gives
\* co2 = (distance * co2Factor) / max(L, 0.1).
C5_RoadFlooredLoadFactor ==
  (Returned /\ Mode = "road" /\ result.input.emissionFactor.unit = "km"
     /\ request.emptyReturn # "true" /\ Defined(request.loadFactor)) =>
    REq(RMul(result.emissions.co2, C5_FlooredLoad),
        RMul(request.distance, result.input.emissionFactor.co2Factor))

\* The result of the same road request with emptyReturn = false and the same
\* lookup response.
C6_WithoutEmptyReturn ==
  CalculateResult("road", [request EXCEPT !.emptyReturn = "false"], response)

\* C6: a road request with emptyReturn = true has exactly 1.5 times the co2,
\* the direct and the indirect emissions of the same request with
\* emptyReturn = false and the same factor.
C6_EmptyReturnTimesOneAndAHalf ==
  (Returned /\ Mode = "road" /\ request.emptyReturn = "true") =>
    /\ result.emissions.co2
         = RMul(Rat(3, 2), C6_WithoutEmptyReturn.emissions.co2)
    /\ result.breakdown.directEmissions
         = RMul(Rat(3, 2), C6_WithoutEmptyReturn.breakdown.directEmissions)
    /\ result.breakdown.indirectEmissions
         = RMul(Rat(3, 2), C6_WithoutEmptyReturn.breakdown.indirectEmissions)

\* A road result with an empty return and emissions above zero.
C6_Witness ==
  /\ Returned /\ Mode = "road" /\ request.emptyReturn = "true"
  /\ RLt(Zero, result.emissions.co2)
  /\ RLt(Zero, result.breakdown.directEmissions)

\* The ten fuel types of the FuelType list and one outside it.
C7_FuelTypes ==
  {"diesel", "petrol", "electric", "hybrid", "hfo", "mgo", "lng", "jet_fuel",
   "biodiesel", "hydrogen", "coal"}

\* C7: in every result of every mode the direct and the indirect emissions
\* add up to emissions.co2; for road this holds of the split for every fuel
\* type, listed or not.
C7_DirectPlusIndirect ==
  Returned =>
    /\ RAdd(result.breakdown.directEmissions,
            result.breakdown.indirectEmissions) = result.emissions.co2
    /\ Mode = "road" =>
         \A ft \in C7_FuelTypes :
           LET b == Road_calculateWTWBreakdown(result.emissions.co2, ft)
           IN  RAdd(b.directEmissions, b.indirectEmissions)
                 = result.emissions.co2

\* A road result for a fuel type outside the list, with emissions above zero.
C7_Witness ==
  /\ Returned /\ Mode = "road" /\ request.vehicle.fuelType = "coal"
  /\ RLt(Zero, result.emissions.co2)

\* The mass of a gas that may be absent: 0 when it is.
C8_Mass(x) == IF Defined(x) THEN x ELSE Zero

\* co2 * 1 + ch4 * 28 + n2o * 265, an absent gas counting 0.
C8_CO2e(co2, ch4, n2o) ==
  RAdd(RAdd(co2, RMul(C8_Mass(ch4), Num(28))), RMul(C8_Mass(n2o), Num(265)))

\* C8: convertToCO2e(co2, ch4, n2o) is co2 * 1 + ch4 * 28 + n2o * 265 for
\* every combination of present, absent and zero gases, and emissions.total
\* of every road result is that conversion of its co2, ch4 and n2o.
C8_GWPConversion ==
  (Returned /\ Mode = "road") =>
    /\ result.emissions.total
         = C8_CO2e(result.emissions.co2, result.emissions.ch4,
                   result.emissions.n2o)
    /\ \A ch4 \in {NoNumber, Zero, Rat(7, 5), result.emissions.ch4} :
         \A n2o \in {NoNumber, Zero, Rat(1, 40), result.emissions.n2o} :
           convertToCO2e(result.emissions.co2, ch4, n2o)
             = C8_CO2e(result.emissions.co2, ch4, n2o)

\* A road result with methane and nitrous oxide both present.
C8_Witness ==
  /\ Returned /\ Mode = "road"
  /\ Truthy(result.emissions.ch4) /\ Truthy(result.emissions.n2o)
  /\ RLt(result.emissions.co2, result.emissions.total)


\* The load factor a tonne-km mode defaults to.
TonneKmDefaultLoad(mode) ==
  CASE mode = "rail" -> Rat(8, 10)
    [] mode = "sea" -> Rat(85, 100)
    [] mode = "air" -> Rat(8, 10)

\* The load factor of the request, the mode's default when it is omitted.
LoadWhenOmitted ==
  IF Defined(request.loadFactor)
  THEN request.loadFactor ELSE TonneKmDefaultLoad(Mode)

\* The load factor of the request, the mode's default when it is omitted or 0.
LoadWhenOmittedOrZero ==
  IF Truthy(request.loadFactor)
  THEN request.loadFactor ELSE TonneKmDefaultLoad(Mode)

\* distance * weight * co2Factor of the returned result
TonneKmBase ==
  RMul(RMul(request.distance, request.weight),
       result.input.emissionFactor.co2Factor)

\* The fixed split of rail (10/90) and sea (72/28).
C9_Split ==
  /\ Mode = "rail" =>
       /\ result.breakdown.directEmissions
            = RMul(result.emissions.co2, Rat(10, 100))
       /\ result.breakdown.indirectEmissions
            = RMul(result.emissions.co2, Rat(90, 100))
  /\ Mode = "sea" =>
       /\ result.breakdown.directEmissions
            = RMul(result.emissions.co2, Rat(72, 100))
       /\ result.breakdown.indirectEmissions
            = RMul(result.emissions.co2, Rat(28, 100))

\* Rail, 300 km, 50 t, no load factor, default factor.
C9_ScenarioB ==
  /\ Mode = "rail" /\ request.distance = Num(300) /\ request.weight = Num(50)
  /\ ~Defined(request.loadFactor) /\ UsedDefaultFactor

\* 525 kg, 52.5 direct and 472.5 indirect
C9_ScenarioBResult ==
  /\ result.emissions.co2 = Num(525)
  /\ result.breakdown.directEmissions = Rat(525, 10)
  /\ result.breakdown.indirectEmissions = Rat(4725, 10)

\* C9 as stated: for every valid rail or sea request
\* co2 = (distance * weight * co2Factor) / loadFactor, the load factor being
\* 0.8 (rail) or 0.85 (sea) when omitted, with the split 10/90 or 72/28.
C9_TonneKmAsStated ==
  (Returned /\ Mode \in {"rail", "sea"}) =>
    /\ REq(RMul(result.emissions.co2, LoadWhenOmitted), TonneKmBase)
    /\ C9_Split
    /\ C9_ScenarioB => C9_ScenarioBResult

\* C9, amended: for every valid rail or sea request
\* co2 = (distance * weight * co2Factor) / loadFactor, the load factor being
\* 0.8 (rail) or 0.85 (sea) when it is omitted or given as 0, with the split
\* 10/90 (rail) or 72/28 (sea); rail, 300 km, 50 t and the default factor
\* give 525 kg, 52.5 direct and 472.5 indirect.
C9_TonneKmRailSea ==
  (Returned /\ Mode \in {"rail", "sea"}) =>
    /\ REq(RMul(result.emissions.co2, LoadWhenOmittedOrZero), TonneKmBase)
    /\ result.emissions.co2 = RDiv(TonneKmBase, LoadWhenOmittedOrZero)
    /\ C9_Split
    /\ C9_ScenarioB => C9_ScenarioBResult

\* The rail scenario, returned with 525 kg.
C9_Witness ==
  Returned /\ C9_ScenarioB /\ C9_ScenarioBResult

\* The fixed 75/25 split of air.
C10_Split ==
  /\ result.breakdown.directEmissions
       = RMul(result.emissions.co2, Rat(75, 100))
  /\ result.breakdown.indirectEmissions
       = RMul(result.emissions.co2, Rat(25, 100))

\* Air, 2000 km, 5 t, no load factor, default factor.
C10_ScenarioC ==
  /\ Mode = "air" /\ request.distance = Num(2000) /\ request.weight = Num(5)
  /\ ~Defined(request.loadFactor) /\ UsedDefaultFactor

\* The emissions road, rail and sea compute for the data and the factor of
\* the returned result carry no factor 1.9: they are the plain formulas.
C10_NoRFIElsewhere ==
  LET data == result.input.activityData
      factor == result.input.emissionFactor
      lf == data.loadFactor
      tkm == RMul(RMul(data.distance, data.weight), factor.co2Factor)
      roadBase == IF factor.unit = "tkm" /\ Truthy(data.weight)
                  THEN tkm ELSE RMul(data.distance, factor.co2Factor)
      roadTrip == IF data.emptyReturn = "true" THEN Rat(3, 2) ELSE One
  IN  /\ Rail_calculateEmissions(data, factor).co2 = RDiv(tkm, lf)
      /\ Sea_calculateEmissions(data, factor).co2 = RDiv(tkm, lf)
      /\ Mode = "road" =>
           result.emissions.co2
             = RMul(RDiv(roadBase, RMax(lf, Rat(1, 10))), roadTrip)
      /\ Mode \in {"rail", "sea"} => result.emissions.co2 = RDiv(tkm, lf)
      /\ Mode = "air" =>
           result.emissions.co2
             = RMul(Rat(19, 10), Rail_calculateEmissions(data, factor).co2)

\* C10 as stated: for every valid air request
\* co2 = (distance * weight * co2Factor * 1.9) / loadFactor, the load factor
\* being 0.8 when omitted, with the split 75/25, and no other mode applies 1.9.
C10_AirAsStated ==
  Returned =>
    /\ Mode = "air" =>
         /\ REq(RMul(result.emissions.co2, LoadWhenOmitted),
                RMul(TonneKmBase, Rat(19, 10)))
         /\ C10_Split
         /\ C10_ScenarioC => result.emissions.co2 = Rat(142975, 10)
    /\ C10_NoRFIElsewhere

\* C10, amended: for every valid air request
\* co2 = (distance * weight * co2Factor * 1.9) / loadFactor, the load factor
\* being 0.8 when it is omitted or given as 0, with the split 75/25 (2000 km,
\* 5 t and the default factor give 14297.5 kg); road, rail and sea results
\* for the same data and factor carry no factor 1.9.
C10_AirRFI ==
  Returned =>
    /\ Mode = "air" =>
         /\ REq(RMul(result.emissions.co2, LoadWhenOmittedOrZero),
                RMul(TonneKmBase, Rat(19, 10)))
         /\ result.emissions.co2
              = RDiv(RMul(TonneKmBase, Rat(19, 10)), LoadWhenOmittedOrZero)
         /\ C10_Split
         /\ C10_ScenarioC => result.emissions.co2 = Rat(142975, 10)
    /\ C10_NoRFIElsewhere

\* The air scenario, returned with 14297.5 kg.
C10_Witness ==
  Returned /\ C10_ScenarioC /\ result.emissions.co2 = Rat(142975, 10)


\* The load factor the caller left out is the one the normalized data, the
\* computation and metrics.loadUtilization all carry.
C11_Applied(lf) ==
  /\ result.input.activityData.loadFactor = lf
  /\ result.metrics.loadUtilization = lf
  /\ Mode = "road" =>
       REq(RMul(result.emissions.co2, lf),
           RMul(Road_baseEmissions(result.input.activityData,
                                   result.input.emissionFactor),
                IF request.emptyReturn = "true" THEN Rat(3, 2) ELSE One))
  /\ Mode \in {"rail", "sea"} =>
       REq(RMul(result.emissions.co2, lf), TonneKmBase)
  /\ Mode = "air" =>
       REq(RMul(result.emissions.co2, lf), RMul(TonneKmBase, Rat(19, 10)))

\* The default load factor of a road vehicle type, by its lower-cased name.
C11_RoadDefaultLoad(vehicleType) ==
  CASE toLowerCase(vehicleType) = "van" -> Rat(60, 100)
    [] toLowerCase(vehicleType) = "light_truck" -> Rat(65, 100)
    [] toLowerCase(vehicleType) = "truck" -> Rat(70, 100)
    [] toLowerCase(vehicleType) = "heavy_truck" -> Rat(75, 100)
    [] toLowerCase(vehicleType) = "car" -> One
    [] toLowerCase(vehicleType) = "motorcycle" -> One
    [] OTHER -> Rat(70, 100)

\* C11 as stated: when the caller omits loadFactor, the load factor applied
\* and reported as metrics.loadUtilization is 0.8 for rail, 0.85 for sea, 0.8
\* for air, and for road a value between 0.6 and 0.75.
C11_DefaultLoadAsStated ==
  (Returned /\ ~Defined(request.loadFactor)) =>
    /\ Mode # "road" => C11_Applied(TonneKmDefaultLoad(Mode))
    /\ Mode = "road" =>
         /\ C11_Applied(result.metrics.loadUtilization)
         /\ RLe(Rat(60, 100), result.metrics.loadUtilization)
         /\ RLe(result.metrics.loadUtilization, Rat(75, 100))

\* C11, amended: when the caller omits loadFactor, the load factor applied
\* and reported as metrics.loadUtilization is 0.8 for rail, 0.85 for sea, 0.8
\* for air, and for road the value of the vehicle type as the caller wrote it
\* (van 0.6, light_truck 0.65, truck 0.7, heavy_truck 0.75, car and
\* motorcycle 1.0), 0.7 for any other type.
C11_DefaultLoadFactor ==
  (Returned /\ ~Defined(request.loadFactor)) =>
    /\ Mode # "road" => C11_Applied(TonneKmDefaultLoad(Mode))
    /\ Mode = "road" => C11_Applied(C11_RoadDefaultLoad(request.vehicle.type))

\* A road result for a car without a load factor, reported as fully loaded.
C11_Witness ==
  /\ Returned /\ Mode = "road" /\ request.vehicle.type = "car"
  /\ ~Defined(request.loadFactor)
  /\ result.metrics.loadUtilization = One
  /\ RLt(Zero, result.emissions.co2)


\* The request carries a loadFactor below 0 or above 1.
C12_LoadFactorOutOfRange ==
  /\ Defined(request.loadFactor)
  /\ (RLt(request.loadFactor, Zero) \/ RLt(One, request.loadFactor))

\* C12: in every mode calculate returns a result only if the loadFactor of
\* the request, when present, lies in [0,1]; a request with loadFactor < 0 or
\* loadFactor > 1 ends in the validation failure, with no factor query issued
\* and no emissions computed.
C12_LoadFactorInRange ==
  (Called /\ C12_LoadFactorOutOfRange) =>
    /\ pc = "threw"
    /\ Len(validationErrors) > 0
    /\ lookups = <<>>
    /\ result = NoResult


\* The codes of the validation errors of the call, in their order.
ErrorCodes == [i \in 1..Len(validationErrors) |-> validationErrors[i].code]

\* The codes of the road rules the request violates.
C13_ViolatedRules ==
  (IF Defined(request.distance) /\ RLt(Zero, request.distance)
   THEN {} ELSE {"INVALID_DISTANCE"})
  \cup (IF request.vehicle.type # "undefined" THEN {} ELSE {"INVALID_VEHICLE"})
  \cup (IF request.vehicle.fuelType # "undefined"
        THEN {} ELSE {"INVALID_FUEL_TYPE"})
  \cup (IF ~Defined(request.weight) \/ RLe(Zero, request.weight)
        THEN {} ELSE {"INVALID_WEIGHT"})
  \cup (IF ~Defined(request.loadFactor)
           \/ (RLe(Zero, request.loadFactor) /\ RLe(request.loadFactor, One))
        THEN {} ELSE {"INVALID_LOAD_FACTOR"})

\* C13: road validation accepts a request exactly when distance > 0,
\* vehicle.type and vehicle.fuelType are present, weight (if given) is >= 0
\* and loadFactor (if given) is in [0,1]; every violated rule contributes one
\* error with its own code, and a request without weight is accepted.
C13_RoadValidation ==
  (Called /\ Mode = "road") =>
    /\ Range(ErrorCodes) = C13_ViolatedRules
    /\ Len(validationErrors) = Cardinality(C13_ViolatedRules)
    /\ Threw <=> C13_ViolatedRules # {}
    /\ (~Defined(request.weight)
          /\ C13_ViolatedRules \ {"INVALID_WEIGHT"} = {}) => ~Threw

\* A road request without weight, with loadFactor at the end of its range,
\* accepted and computed.
C13_Witness ==
  /\ Returned /\ Mode = "road" /\ ~Defined(request.weight)
  /\ request.loadFactor = One /\ validationErrors = <<>>


\* Every string the thrown failure holds: its name and the pieces of its text.
C14_FailureContents == {failure.name} \cup Range(failure.message)

\* Every string the body of the HTTP error response holds.
C14_ResponseContents ==
  {CalculateErrorResponse(failure).body.error}
  \cup Range(CalculateErrorResponse(failure).body.message)

\* C14: a validation failure reaches the caller as the list of its errors
\* with their codes: for a road request without vehicle.type the failure
\* carries the code INVALID_VEHICLE, and nothing was computed.
C14_FailureCarriesCodes ==
  (Threw /\ Mode = "road" /\ request.vehicle.type = "undefined") =>
    /\ result = NoResult /\ lookups = <<>>
    /\ "INVALID_VEHICLE" \in Range(ErrorCodes)
    /\ \/ "INVALID_VEHICLE" \in C14_FailureContents
       \/ "INVALID_VEHICLE" \in C14_ResponseContents


\* The codes of the rail, sea and air rules the request violates.
C15_ViolatedRules ==
  (IF Defined(request.distance) /\ RLt(Zero, request.distance)
   THEN {} ELSE {"INVALID_DISTANCE"})
  \cup (IF Defined(request.weight) /\ RLt(Zero, request.weight)
        THEN {} ELSE {"INVALID_WEIGHT"})

\* C15: rail, sea and air validation accept a request exactly when
\* distance > 0 and weight > 0; a missing, zero or negative distance gives
\* INVALID_DISTANCE, a missing, zero or negative weight gives INVALID_WEIGHT,
\* and when both are wrong both errors are returned.
C15_TonneKmValidation ==
  (Called /\ Mode \in {"rail", "sea", "air"}) =>
    /\ Range(ErrorCodes) = C15_ViolatedRules
    /\ Len(validationErrors) = Cardinality(C15_ViolatedRules)
    /\ Threw <=> C15_ViolatedRules # {}
    /\ C15_ViolatedRules = {"INVALID_DISTANCE", "INVALID_WEIGHT"} =>
         ErrorCodes = <<"INVALID_DISTANCE", "INVALID_WEIGHT">>

\* An air request without distance and with weight 0, rejected with both
\* errors.
C15_Witness ==
  /\ Threw /\ Mode = "air" /\ ~Defined(request.distance)
  /\ request.weight = Zero
  /\ ErrorCodes = <<"INVALID_DISTANCE", "INVALID_WEIGHT">>


\* The getCalculator calls so far that were made with one of the four modes.
SupportedCalls ==
  {k \in 1..Len(getCalls) : getCalls[k].mode \in TransportModes}

\* The modes getCalculator has been called with so far.
ModesAsked == {getCalls[k].mode : k \in SupportedCalls}

\* C16: after any sequence of getCalculator calls the registry holds at most
\* one calculator per mode: one calculator was constructed for every mode
\* asked for and none twice, every call for a mode returned that calculator,
\* the first as well as the later ones, and the entry of a mode is still the
\* calculator its first call returned, whatever was asked for in between.
C16_OneCalculatorPerMode ==
  /\ DOMAIN calculators = ModesAsked
  /\ Len(instances) = Cardinality(ModesAsked)
  /\ \A m \in TransportModes :
       Cardinality({k \in 1..Len(instances) : instances[k] = m}) <= 1
  /\ \A m \in DOMAIN calculators :
       calculators[m] \in 1..Len(instances) /\ instances[calculators[m]] = m
  /\ \A k \in SupportedCalls :
       /\ ~getCalls[k].threw
       /\ getCalls[k].returned = calculators[getCalls[k].mode]
       /\ \A j \in SupportedCalls :
            getCalls[j].mode = getCalls[k].mode =>
              getCalls[j].returned = getCalls[k].returned

\* Road, rail and road again: two calculators, the third call returning the
\* calculator of the first.
C16_Witness ==
  /\ Len(getCalls) = 3
  /\ getCalls[1].mode = "road" /\ getCalls[2].mode = "rail"
  /\ getCalls[3].mode = "road"
  /\ getCalls[3].returned = getCalls[1].returned
  /\ getCalls[2].returned # getCalls[1].returned
  /\ instances = <<"road", "rail">>

\* C17: getCalculator called with a value that is not road, rail, sea or air
\* throws 'Unsupported transport mode', returns no calculator, and leaves the
\* registry as it was: no entry and no calculator exists for such a value.
C17_UnsupportedModeFails ==
  /\ \A k \in 1..Len(getCalls) :
       getCalls[k].mode \notin TransportModes =>
         /\ getCalls[k].threw
         /\ getCalls[k].returned = 0
         /\ getCalls[k].error
              = <<"Unsupported transport mode: ", getCalls[k].mode>>
  /\ DOMAIN calculators \subseteq TransportModes
  /\ DOMAIN calculators = ModesAsked
  /\ Len(instances) = Cardinality(ModesAsked)
  /\ \A k \in 1..Len(instances) : instances[k] \in ModesAsked

\* A call for road, then one for ROAD, which is not a mode: it threw and the
\* registry still holds the road calculator only.
C17_Witness ==
  /\ Len(getCalls) = 2
  /\ getCalls[1].mode = "road" /\ getCalls[2].mode = "ROAD"
  /\ getCalls[2].threw
  /\ DOMAIN calculators = {"road"} /\ instances = <<"road">>


\* The batch handler has answered a request that carried accepted credentials.
BatchAnswered == batchPc = "responded" /\ batchResponse.status # 401

\* The number of requests of the batch.
BatchSize == Len(batchRequest.calculations)

\* How many entries of a list of {index, ...} entries carry the index i.
EntriesAt(entries, i) ==
  Cardinality({k \in 1..Len(entries) : entries[k].index = i})

\* C18: in a batch every item index i is processed exactly once and ends up
\* either as one successful result or as one errors entry {index: i, error};
\* a failing item, by validation or by an unsupported mode, never keeps the
\* items after it from being processed, and the response carries
\* successful + failed = number of requests, also when every item fails.
C18_BatchIsolation ==
  (BatchAnswered /\ BatchSize >= 1) =>
    /\ batchResponse.status = 200
    /\ \A i \in 0..(BatchSize - 1) :
         EntriesAt(results, i) + EntriesAt(errors, i) = 1
    /\ Len(results) + Len(errors) = BatchSize
    /\ batchResponse.body.summary.totalRequests = BatchSize
    /\ batchResponse.body.summary.successful
         + batchResponse.body.summary.failed = BatchSize


\* The batch handler has sent the response of a processed batch.
BatchCompleted == batchPc = "responded" /\ batchResponse.status = 200

\* The activity data of the request at input index i (counted from 0).
BatchInput(i) == batchRequest.calculations[i + 1].activityData

\* The input indices of the requests that failed, in input order.
C19_FailedIndices ==
  {i \in 0..(BatchSize - 1) :
     ValidationFails(validateInput(BatchInput(i).transportMode, BatchInput(i)))}

\* The list is strictly increasing.
C19_Increasing(indices) ==
  \A j, k \in 1..Len(indices) : j < k => indices[j] < indices[k]

\* C19: in a batch response the results in individual[] are in the relative
\* order of their requests in the input, each being a result for its own
\* request, and every errors[] entry carries the input index of the request
\* that failed, whatever happened to the items before it.
C19_BatchOrder ==
  BatchCompleted =>
    LET individual == batchResponse.body.individual
        failed == batchResponse.body.errors.entries
    IN  /\ Len(individual) = Len(results)
        /\ C19_Increasing([k \in 1..Len(results) |-> results[k].index])
        /\ C19_Increasing([k \in 1..Len(failed) |-> failed[k].index])
        /\ {failed[k].index : k \in 1..Len(failed)} = C19_FailedIndices
        /\ {results[k].index : k \in 1..Len(results)}
             = (0..(BatchSize - 1)) \ C19_FailedIndices
        /\ \A k \in 1..Len(individual) :
             LET data == BatchInput(results[k].index)
             IN  /\ individual[k].input.activityData.transportMode
                      = data.transportMode
                 /\ individual[k].input.activityData.distance = data.distance
                 /\ individual[k].input.activityData.weight = data.weight
                 /\ individual[k]
                      \in {CalculateResult(data.transportMode, data, resp) :
                             resp \in BatchLookupResponses(
                                        FactorQuery(data.transportMode, data))}
        /\ \A k \in 1..Len(failed) :
             failed[k].error
               = ValidationFailure(
                   validateInput(BatchInput(failed[k].index).transportMode,
                                 BatchInput(failed[k].index))).message

\* A batch of a road request, a rail request without weight and a rail
\* request: two results in that order, and one error with index 1.
C19_Witness ==
  /\ BatchCompleted /\ BatchSize = 3
  /\ Len(batchResponse.body.individual) = 2
  /\ batchResponse.body.individual[1].input.activityData.transportMode = "road"
  /\ batchResponse.body.individual[2].input.activityData.transportMode = "rail"
  /\ Len(batchResponse.body.errors.entries) = 1
  /\ batchResponse.body.errors.entries[1].index = 1


\* The sum of f[1] .. f[k], f being a list of numbers.
RECURSIVE C20_SumTo(_, _)
C20_SumTo(f, k) == IF k = 0 THEN Zero ELSE RAdd(f[k], C20_SumTo(f, k - 1))

\* An optional number, counted as 0 when absent.
C20_OrZero(x) == IF Defined(x) THEN x ELSE Zero

\* C20: a batch response carries an aggregate exactly when
\* options.aggregateResults is true and at least one item succeeded; its
\* totalEmissions is the sum of emissions.total over the successful items,
\* calculationCount their number, totalDistance and totalWeight the sums of
\* their distances and weights, and averageIntensity the mean of their
\* emissionIntensity; failed items add to none of them.
C20_BatchAggregate ==
  BatchCompleted =>
    LET individual == batchResponse.body.individual
        aggregate == batchResponse.body.aggregate
        n == Len(individual)
        succeeded == [k \in 1..n |-> BatchInput(results[k].index)]
    IN  /\ aggregate.defined
             <=> (batchRequest.options.aggregateResults = "true" /\ n >= 1)
        /\ aggregate.defined =>
             /\ n = BatchSize - Len(errors)
             /\ aggregate.calculationCount = n
             /\ aggregate.totalEmissions
                  = C20_SumTo([k \in 1..n |-> individual[k].emissions.total], n)
             /\ aggregate.totalDistance
                  = C20_SumTo([k \in 1..n |-> succeeded[k].distance], n)
             /\ aggregate.totalWeight
                  = C20_SumTo([k \in 1..n |-> C20_OrZero(succeeded[k].weight)],
                              n)
             /\ RMul(aggregate.averageIntensity, Num(n))
                  = C20_SumTo([k \in 1..n |->
                                 individual[k].metrics.emissionIntensity], n)

\* A batch of three with one failed item: the aggregate counts the two that
\* succeeded and adds up their emissions.
C20_Witness ==
  /\ BatchCompleted /\ BatchSize = 3 /\ Len(errors) = 1
  /\ batchResponse.body.aggregate.defined
  /\ batchResponse.body.aggregate.calculationCount = 2
  /\ RLt(batchResponse.body.individual[1].emissions.total,
         batchResponse.body.aggregate.totalEmissions)


\* The score of the request and the resolved factor: 2 for each of weight,
\* distance and fuelConsumed present in the request, 1 for loadFactor present
\* in the request, 1 for scope wtw, 1 for a region.
C21_Score ==
  (IF Truthy(request.weight) THEN 2 ELSE 0)
  + (IF Truthy(request.distance) THEN 2 ELSE 0)
  + (IF Truthy(request.fuelConsumed) THEN 2 ELSE 0)
  + (IF Defined(request.loadFactor) THEN 1 ELSE 0)
  + (IF result.input.emissionFactor.scope = "wtw" THEN 1 ELSE 0)
  + (IF result.input.emissionFactor.region # "undefined" THEN 1 ELSE 0)

\* C21: the confidence label of a result is the label of the score of the
\* request and the resolved factor: 2 for each of weight, distance and
\* fuelConsumed present in the request, 1 for loadFactor present in the
\* request, 1 for scope wtw, 1 for a region; 7 and more is high, 4 and more
\* medium, less is low.
C21_ConfidenceFromRequest ==
  Returned =>
    result.metadata.confidence
      = (IF C21_Score >= 7 THEN "high"
         ELSE IF C21_Score >= 4 THEN "medium" ELSE "low")


\* The factor of the result was taken from the provider.
C23_LookedUp == ~UsedDefaultFactor

\* C23: in every mode, a factor taken from the provider (not the default) is
\* a row of the request's transport mode, vehicle type and fuel type (as the
\* query writes them, in lower case): calculate never uses a looked-up factor
\* whose vehicle type or fuel type differs from the request's.
C23_LookedUpFactorMatches ==
  (Returned /\ C23_LookedUp) =>
    /\ result.input.emissionFactor.transportMode = Mode
    /\ result.input.emissionFactor.vehicleType
         = toLowerCase(request.vehicle.type)
    /\ result.input.emissionFactor.fuelType
         = toLowerCase(request.vehicle.fuelType)

\* The road base emissions as stated: per tonne-km whenever the factor is per
\* tkm and the request carries a weight, zero included; per km otherwise.
C24_Base ==
  LET f == result.input.emissionFactor
  IN  IF f.unit = "tkm" /\ Defined(request.weight)
      THEN RMul(RMul(request.distance, request.weight), f.co2Factor)
      ELSE RMul(request.distance, f.co2Factor)

\* C24: the co2 of a road result is the stated base (distance * co2Factor for
\* unit km; distance * weight * co2Factor for unit tkm with a weight in the
\* request, 0 included; distance * co2Factor for any other unit or for tkm
\* without weight), divided by the floored load factor and raised for an
\* empty return.
C24_RoadBaseByUnit ==
  (Returned /\ Mode = "road") =>
    REq(result.emissions.co2,
        Road_emptyReturnTotal(
          request,
          RDiv(C24_Base,
               RMax(result.input.activityData.loadFactor, Rat(1, 10)))))

\* The aliases of the road vehicle types among the requests' vehicle types.
C26_Aliases ==
  {t \in RoadVehicleTypes :
     t \in DOMAIN Road_typeMap /\ Road_typeMap[t] # t}

\* The request with its vehicle named by the canonical name.
C26_Canonical ==
  [request EXCEPT !.vehicle.type = Road_typeMap[request.vehicle.type]]

\* C26: a valid road request naming its vehicle by an alias gives, when no
\* factor is found, the emissions of the same request naming the vehicle by
\* its canonical name.
C26_AliasSameEmissions ==
  (Returned /\ Mode = "road" /\ LookupFailed
     /\ request.vehicle.type \in C26_Aliases) =>
    result.emissions
      = CalculateResult("road", C26_Canonical, response).emissions

\* metadata.assumptions has the 'Load factor assumed' entry of the mode.
C27_HasLoadEntry ==
  LoadFactorAssumed(Mode) \in Range(result.metadata.assumptions)

\* C27: in every mode, the result's metadata.assumptions contains the 'Load
\* factor assumed' entry when the caller omitted loadFactor, and does not
\* contain it when the caller supplied one.
C27_LoadAssumptionListed ==
  Returned => (C27_HasLoadEntry <=> ~Defined(request.loadFactor))

\* C28: no result calculate returns has confidence 'low': the score that
\* assessConfidence adds up for it is at least 4.
C28_NeverLowConfidence ==
  Returned =>
    /\ result.metadata.confidence # "low"
    /\ ConfidenceScore(result.input.activityData,
                       result.input.emissionFactor) >= 4

\* A returned result whose score is exactly 4: nothing but the distance in the
\* request and a default factor.
C28_Witness ==
  /\ Returned
  /\ ~Defined(request.weight) /\ ~Defined(request.loadFactor)
  /\ ~Defined(request.fuelConsumed) /\ UsedDefaultFactor
  /\ ConfidenceScore(result.input.activityData,
                     result.input.emissionFactor) = 4
  /\ result.metadata.confidence = "medium"


\* What a calculate call with this activity data returns when it runs alone,
\* from an empty registry, for the same answer of the factor provider.
C22_AloneResult(data, resp) ==
  LET got == getCalculator(NoCalculators, <<>>, data.transportMode)
  IN  CalculateResult(got.instances[got.returned], data, resp)

\* What it throws when it runs alone.
C22_AloneFailure(data) ==
  LET got == getCalculator(NoCalculators, <<>>, data.transportMode)
  IN  ValidationFailure(validateInput(got.instances[got.returned], data))

\* C22: calculate calls that run concurrently, interleaved at the await of
\* the factor lookup and sharing the cached calculator of their mode, each
\* return (or throw) exactly what they would when run alone.
C22_ConcurrentCallsIsolated ==
  \A c \in Callers :
    /\ calls[c].pc = "returned" =>
         calls[c].result = C22_AloneResult(calls[c].request, calls[c].response)
    /\ calls[c].pc = "threw" =>
         calls[c].failure = C22_AloneFailure(calls[c].request)

\* Two calls with different requests on the same cached calculator, the
\* second begun while the first waited for its factor, both returned, with
\* different results.
C22_Witness ==
  /\ Len(callLog) = 4
  /\ callLog[1].step = "begin" /\ callLog[2].step = "begin"
  /\ calls[1].pc = "returned" /\ calls[2].pc = "returned"
  /\ calls[1].calculator = calls[2].calculator
  /\ Len(instances) = 1
  /\ calls[1].request # calls[2].request
  /\ calls[1].result # calls[2].result


\* C25: GET /health is answered without passing through a rate limiter:
\* however many requests its IP has sent in the current window, a /health
\* request is never answered with 429.
C25_HealthNeverLimited ==
  gatewayRequest.route = "GET /health" => gatewayResponse.status # 429

\* The key the last request presented is the key of an active row of the
\* api_keys table, written there by POST /api-keys.
C29_PresentsIssuedKey ==
  /\ HeaderTruthy(gatewayRequest.apiKey)
  /\ \E r \in apiKeys :
       r.is_active /\ r.key_hash = gatewayRequest.apiKey.value

\* C29: a request that sends a key issued by POST /api-keys in X-API-Key is
\* not stopped by the API-key format checks: neither validateApiKeyFormat nor
\* verifyAPIKey answers it with 'Invalid API key format'.
C29_IssuedKeyAccepted ==
  C29_PresentsIssuedKey => gatewayResponse.error # "Invalid API key format"


\* The calculation handler of the route has run.
C30_HandlerRan == authHandler.ran \/ batchPc # "idle"

\* A calculator has been constructed or asked for.
C30_CalculatorInvoked == instances # <<>> \/ authHandler.calculator # 0

\* The request carried no credentials, or the verifier refused them.
C30_Refused == authPc = "done" /\ authRequest.user = "none"

\* The handler runs only for a request a verifier accepted; a request that
\* is refused gets one response, a 401, and no calculator.
C30_HandlerBehindVerifier ==
  /\ C30_HandlerRan =>
       /\ authRequest.user # "none"
       /\ authVerifiers \in {<<"verifyJWT">>, <<"verifyAPIKey">>}
  /\ authRequest.user = "none" =>
       /\ ~C30_HandlerRan /\ ~C30_CalculatorInvoked
       /\ Len(authResponses) <= 1
  /\ C30_Refused =>
       /\ Len(authResponses) = 1
       /\ authResponses[1].status = 401

=============================================================================
